---- MODULE Spec2Model ----
(***************************************************************************)
(* The Borrowed-Virtual-Time scheduler of xen/common/sched_bvt.c as a      *)
(* state machine: per-domain bvt_dom_info records, per-CPU run queues and  *)
(* system virtual time, the wake / sleep / reschedule / timer / control    *)
(* handlers.  Spec takes each handler as one atomic action; SpecRace takes *)
(* the reschedule and the wake at the grain of their critical sections.    *)
(*                                                                         *)
(* Machine integers are kept at their C width.  A number n is the pair     *)
(* <<hi, lo>> with n = hi * 2^16 + lo and 0 <= lo < 2^16, so that 32-bit   *)
(* unsigned values (hi in 0..65535), 32-bit signed values (hi in           *)
(* -32768..32767) and 64-bit times all fit the model checker's integers.   *)
(***************************************************************************)
EXTENDS Integers, Sequences, FiniteSets, TLC

B16 == 2^16

W(hi, lo) == <<hi, lo>>

\* an ordinary integer as a machine number
Num(n) == <<n \div B16, n % B16>>

Add(a, b) == LET s == a[2] + b[2] IN <<a[1] + b[1] + (s \div B16), s % B16>>

Sub(a, b) == LET s == a[2] - b[2] IN <<a[1] - b[1] + (s \div B16), s % B16>>

Lt(a, b) == a[1] < b[1] \/ (a[1] = b[1] /\ a[2] < b[2])

Le(a, b) == a = b \/ Lt(a, b)

\* conversion to u32: the value modulo 2^32
U32(a) == <<a[1] % B16, a[2]>>

\* conversion to s32: the value modulo 2^32, read as two's complement
S32(a) == LET h == a[1] % B16 IN <<IF h >= 2^15 THEN h - B16 ELSE h, a[2]>>

\* a * k for a small ordinary integer k
Mul(a, k) == LET p == a[2] * k IN <<a[1] * k + (p \div B16), p % B16>>

\* unsigned division a / m, a >= 0, m an ordinary integer in 1 .. 2^23:
\* long division over the digits hi, lo \div 256, lo % 256
Div(a, m) ==
    LET qh == a[1] \div m
        t1 == (a[1] % m) * 256 + (a[2] \div 256)
        t0 == (t1 % m) * 256 + (a[2] % 256)
    IN  <<qh, (t1 \div m) * 256 + (t0 \div m)>>

Zero == W(0, 0)
\* ~0U
MaxU32 == W(65535, 65535)
S32Min == W(-32768, 0)
S32Max == W(32767, 65535)
\* a rebase by 0xf0000000
RebaseAll == W(61440, 0)
\* 0xf0000000 and 0xe0000000
HighWater == W(61440, 0)
RebaseBy == W(57344, 0)

\* MICROSECS(100), in nanoseconds
MCU == 100000
MCU_ADVANCE == 10
\* MILLISECS(5), MILLISECS(2000), MILLISECS(1000)
CtxAllowInit == Num(5000000)
WarplInit == Num(2000000000)
WarpuInit == Num(1000000000)

(***************************************************************************)
(* Configuration of the model                                              *)
(***************************************************************************)
CPUs == {0, 1}

IdleTask(c) == IF c = 0 THEN "idle0" ELSE "idle1"

\* the guests
Guests == {"A", "B"}

Doms == {IdleTask(c) : c \in CPUs} \cup Guests

NULL == "NULL"

\* How many times the model's clock advances.
MaxTicks == 2

\* The environments the scheduler is explored in.  Each fixes, for a whole
\* run, which administrative requests arrive and where virtual time starts:
\*   "smp"    guests are moved between the two CPUs;
\*   "warp"   guest A is given a warp with a limit, with or without an
\*            unwarp time;
\*   "rewarp" guest A is given a warp whose unwarp time is longer than its
\*            limit, and is given it again;
\*   "epoch"  CPU 0 has run up to 0xefffffff, just below the overflow guard,
\*            and guest A is given a large warp;
\*   "tune"   guest A's weight and warp are changed;
\*   "allow"  the global allowance is changed, up to the largest value the
\*            request accepts, and the clock advances by 5 ms;
\*   "race"   wakes and sleeps arrive from the other CPU while a CPU is
\*            inside its reschedule (the environment of SpecRace);
\*   "scene"  CPU 0 has run up to svt 1000 and guest A is given a warp of
\*            100 (the environment of SpecScene);
\*   "free"   guest A is given a warp and a blocked guest is destroyed
\*            (the environment of SpecFree);
\*   "lock"   guest A is given a warp by a request that runs on CPU 1 and
\*            is seen between its writes (the environment of SpecLock);
\*   "wrap"   CPU 0 has run up to 0xefffffff and wakes and sleeps arrive
\*            from the other CPU while CPU 0 is inside its reschedule (the
\*            environment of SpecWrap);
\*   "ctl"    guest A's parameters and the global allowance are set and
\*            read back (the environment of SpecCtl);
\*   "live"   guest A is given a warp, the guests are woken and CPU 0 runs
\*            its reschedules one after the other, each when its timer
\*            or a signal calls for it (the environment of SpecLive).
Envs == {"smp", "warp", "rewarp", "epoch", "tune", "allow"}

\* NOW() advances by this much between two handlers: 1 ns, or 5 ms
TimeStep(e) == IF e = "allow" THEN Num(5000000) ELSE Num(1)

\* System virtual time of CPU 0 when the model starts: 0 after
\* bvt_init_scheduler, or 0xefffffff after a long first epoch.
StartSvt(e) ==
    CASE e \in {"epoch", "wrap"} -> {W(61439, 65535)}
      [] e = "scene" -> {Num(1000)}
      [] OTHER -> {Zero}

\* Virtual time at which a guest was admitted: the start value, or 0 at boot
StartAvt(e) == StartSvt(e) \cup {Zero}

ParamWarp == [mcu_adv |-> 10, warpback |-> 1, warpvalue |-> Num(100),
              warpl |-> Num(1), warpu |-> Num(1)]
\* a warp that is not taken up again: no unwarp time
ParamOnce == [mcu_adv |-> 10, warpback |-> 1, warpvalue |-> Num(100),
              warpl |-> Num(1), warpu |-> Zero]
\* a warp whose unwarp time is longer than its limit
ParamLong == [mcu_adv |-> 10, warpback |-> 1, warpvalue |-> Num(100),
              warpl |-> Num(1), warpu |-> Num(2)]
\* warp value 0x10000001
ParamBig == [mcu_adv |-> 10, warpback |-> 0, warpvalue |-> W(4096, 1),
             warpl |-> Zero, warpu |-> Zero]
ParamOne == [mcu_adv |-> 1, warpback |-> 0, warpvalue |-> Num(1),
             warpl |-> Zero, warpu |-> Zero]
ParamNone == [mcu_adv |-> 3, warpback |-> 0, warpvalue |-> Zero,
              warpl |-> Zero, warpu |-> Zero]
ParamBad == [mcu_adv |-> 0, warpback |-> 1, warpvalue |-> Num(100),
             warpl |-> Zero, warpu |-> Zero]

\* parameter blocks of the set-domain-parameters request
AdjParams(e) ==
    CASE e \in {"warp", "scene", "free", "lock"} -> {ParamWarp, ParamOnce}
      [] e = "ctl" -> {ParamWarp, ParamOnce, ParamBad}
      [] e = "live" -> {ParamWarp, ParamOne}
      [] e = "rewarp" -> {ParamLong}
      [] e = "epoch" -> {ParamBig}
      [] e = "tune" -> {ParamOne, ParamNone, ParamBad}
      [] OTHER -> {}

\* the guests whose parameters are set
AdjDoms == {"A"}

\* values of the set-global-allowance request
CtxAllowSet(e) == IF e = "allow" THEN {CtxAllowInit, S32Max} ELSE {}

\* the guests that are moved to another CPU
MigrateDoms(e) == IF e = "smp" THEN {"B"} ELSE {}

\* the CPUs that reschedule: both where guests move between them, and
\* otherwise CPU 0 only, CPU 1 staying in its idle domain
SchedCPUs(e) == IF e = "smp" THEN CPUs ELSE {0}

(***************************************************************************)
(* State                                                                   *)
(***************************************************************************)
VARIABLES
    inf,        \* struct bvt_dom_info of every domain
    dom,        \* struct domain: processor and flags
    runqueue,   \* RUNQUEUE(cpu), head first
    svt,        \* CPU_SVT(cpu)
    sd,         \* schedule_data[cpu]: curr and its lastschd, s_timer, the
                \* pending SCHEDULE_SOFTIRQ
    ctx_allow,  \* the context switch allowance (s32)
    now,        \* NOW()
    pend,       \* per CPU: the locals of a bvt_do_schedule that has released
                \* the run queue lock and not yet returned
    wpend,      \* per guest: the NOW() read by a bvt_wake that has released
                \* the run queue lock and not yet taken the schedule lock
    stale,      \* history: the domains whose warp flag or warp value was
                \* written since their evt was last computed
    last,       \* history: the handler that ran last: a reschedule with its
                \* locals, or (see Record) a wake with the signal and the
                \* deadline it found, a warp expiry with whether it armed an
                \* unwarp timer that was pending and not yet due, an unwarp
                \* expiry
    env         \* the environment of this run

vars == <<inf, dom, runqueue, svt, sd, ctx_allow, now, pend, wpend, stale,
          last, env>>

Range(q) == {q[i] : i \in 1..Len(q)}

is_idle_task(d) == d \in {IdleTask(c) : c \in CPUs}

\* (RUNLIST(d))->next != NULL: the record is linked into a run queue
__task_on_runqueue(d) == \E c \in CPUs : d \in Range(runqueue[c])

\* an __add_to_runqueue_head that links at the tail
add_head_at_tail(rq, d) ==
    [rq EXCEPT ![dom[d].processor] = Append(@, d)]

\* list_add(RUNLIST(d), RUNQUEUE(d->processor))
__add_to_runqueue_head(rq, d) ==
    [rq EXCEPT ![dom[d].processor] = <<d>> \o @]

\* an __add_to_runqueue_tail that links nothing
add_tail_drops(rq, d) == rq

\* list_add_tail(RUNLIST(d), RUNQUEUE(d->processor))
__add_to_runqueue_tail(rq, d) ==
    [rq EXCEPT ![dom[d].processor] = Append(@, d)]

\* a __del_from_runqueue that leaves the record linked
del_keeps_linked(rq, d) == rq

\* list_del(runlist); runlist->next = NULL
__del_from_runqueue(rq, d) ==
    [c \in CPUs |-> SelectSeq(rq[c], LAMBDA e : e # d)]

\* a struct ac_timer: armed with its expiry time, or not armed
NoTimer == [active |-> FALSE, expires |-> Zero]

\* d->lastschd of a current domain d: when it was given its CPU.  The
\* field is read of current domains only, and the model keeps it for them.
lastschd(d) == sd[dom[d].processor].lastschd

\* a calc_avt that rounds the mcus down
calc_avt_floor(I, d, t) ==
    U32(Add(I[d].avt, Div(U32(Sub(t, lastschd(d))), MCU)))

\* mcus charged for running from lastschd to t, added to avt (u32)
calc_avt(I, d, t) ==
    LET ranfor == U32(Sub(t, lastschd(d)))
        mcus == Div(U32(Add(ranfor, Num(MCU - 1))), MCU)
    IN  U32(Add(I[d].avt, mcus))

\* a calc_evt that ignores the warp
calc_evt_nowarp(I, d, avt) == avt

\* a calc_evt that adds the warp value
calc_evt_adds(I, d, avt) ==
    IF I[d].warp = 1 THEN U32(Add(avt, I[d].warp_value)) ELSE avt

\* effective virtual time of d at actual virtual time avt
calc_evt(I, d, avt) ==
    IF I[d].warp = 1 THEN U32(Sub(avt, I[d].warp_value)) ELSE avt

\* the record bvt_add_task leaves for a domain admitted at virtual time v
bvt_add_task(d, v) ==
    [mcu_advance |-> MCU_ADVANCE, warpback |-> 0, warp |-> 0,
     warp_value |-> Zero, warpl |-> WarplInit, warpu |-> WarpuInit,
     warp_timer |-> NoTimer, unwarp_timer |-> NoTimer,
     avt |-> IF is_idle_task(d) THEN MaxU32 ELSE v,
     evt |-> IF is_idle_task(d) THEN MaxU32 ELSE v]

NoOp == [op |-> "none"]

\* The environments in which the handlers other than the reschedule are
\* recorded in the history variable; elsewhere they leave no record.
HistoryEnvs == {"warp", "rewarp"}

\* the record r of a handler, where records are kept
Record(r) == IF env \in HistoryEnvs THEN r ELSE NoOp

\* no handler is between its two critical sections
NotIn == [busy |-> FALSE]

\* After bvt_init_scheduler, bvt_init_idle_task on every CPU and the
\* admission of the guests (blocked, on CPU 0).  A guest was admitted when
\* CPU 0's virtual time was at some start value not above the present one.
Boot(e) ==
    /\ env = e
    /\ \E s \in StartSvt(env) : svt = [c \in CPUs |-> IF c = 0 THEN s ELSE Zero]
    /\ \E v \in [Guests -> StartAvt(env)] :
          /\ inf = [d \in Doms |->
                      bvt_add_task(d, IF d \in Guests THEN v[d] ELSE Zero)]
    /\ dom = [d \in Doms |->
                [processor |-> IF d = IdleTask(1) THEN 1 ELSE 0,
                 running |-> is_idle_task(d),
                 runnable |-> is_idle_task(d),
                 migrated |-> FALSE]]
    /\ runqueue = [c \in CPUs |-> <<IdleTask(c)>>]
    /\ sd = [c \in CPUs |->
               [curr |-> IdleTask(c), lastschd |-> Zero, s_timer |-> NoTimer,
                softirq |-> FALSE]]
    /\ ctx_allow = CtxAllowInit
    /\ now = Zero
    /\ pend = [c \in CPUs |-> NotIn]
    /\ wpend = [g \in Guests |-> NotIn]
    /\ stale = {}
    /\ last = NoOp

Init == \E e \in Envs : Boot(e)

(***************************************************************************)
(* Handlers                                                                *)
(***************************************************************************)
\* time passes
Tick ==
    \E dt \in {TimeStep(env)} :
        /\ Le(Add(now, dt), Mul(dt, MaxTicks))
        /\ now' = Add(now, dt)
        /\ last' = NoOp
        /\ UNCHANGED <<inf, dom, runqueue, svt, sd, ctx_allow, env, pend,
                       wpend, stale>>

\* a wake that brings avt and evt up to date on a queued domain too
wake_queue_recomputes(d, I, rq, sv) ==
    LET cpu == dom[d].processor
        avt1 == IF Lt(I[d].avt, sv[cpu]) \/ dom[d].migrated
                THEN sv[cpu] ELSE I[d].avt
        I1 == [I EXCEPT ![d].avt = avt1, ![d].evt = calc_evt(I, d, avt1)]
    IN  IF \E c \in CPUs : d \in Range(rq[c])
        THEN [done |-> TRUE, inf |-> I1, rq |-> rq]
        ELSE [done |-> FALSE, inf |-> I1, rq |-> __add_to_runqueue_head(rq, d)]

\* bvt_wake, lines 245-269, the part under the run queue lock: d is put at
\* the head of its CPU's run queue, its avt is raised to the CPU's system
\* virtual time sv and its evt computed, unless d is on a run queue already
wake_queue(d, I, rq, sv) ==
    LET cpu == dom[d].processor
        avt1 == IF Lt(I[d].avt, sv[cpu]) \/ dom[d].migrated
                THEN sv[cpu] ELSE I[d].avt
    IN  IF \E c \in CPUs : d \in Range(rq[c])
        THEN [done |-> TRUE, inf |-> I, rq |-> rq]
        ELSE [done |-> FALSE,
              inf |-> [I EXCEPT ![d].avt = avt1,
                                ![d].evt = calc_evt(I, d, avt1)],
              rq |-> __add_to_runqueue_head(rq, d)]

\* a wake that raises the signal whatever is running
wake_resched_always(d, I, t) ==
    [sd EXCEPT ![dom[d].processor].softirq = TRUE]

\* a wake that leaves the reschedule timer alone
wake_resched_keeps(d, I, t) ==
    LET cpu == dom[d].processor
        curr == sd[cpu].curr
    IN  IF \/ is_idle_task(curr)
           \/ Le(I[d].evt, calc_evt(I, curr, calc_avt(I, curr, t)))
        THEN [sd EXCEPT ![cpu].softirq = TRUE]
        ELSE sd

\* bvt_wake, lines 272-287, the part under the schedule lock, with t the
\* NOW() read at line 256: the CPU's schedule_data after the current domain
\* is preempted or its slice shortened
wake_resched(d, I, t) ==
    LET cpu == dom[d].processor
        curr == sd[cpu].curr
        curr_evt == calc_evt(I, curr, calc_avt(I, curr, t))
        r_time == Add(Add(lastschd(curr),
                          Div(U32(Sub(I[d].evt, curr_evt)),
                              I[curr].mcu_advance)),
                      ctx_allow)
    IN  IF is_idle_task(curr) \/ Le(I[d].evt, curr_evt)
        THEN [sd EXCEPT ![cpu].softirq = TRUE]
        ELSE IF Lt(r_time, sd[cpu].s_timer.expires)
        THEN [sd EXCEPT ![cpu].s_timer = [active |-> TRUE, expires |-> r_time]]
        ELSE sd

\* bvt_wake(d), called by domain_wake once d is runnable again
bvt_wake(d) ==
    LET w == wake_queue(d, inf, runqueue, svt)
    IN  /\ inf' = w.inf
        /\ runqueue' = w.rq
        /\ sd' = IF w.done THEN sd ELSE wake_resched(d, w.inf, now)
        /\ stale' = IF w.done THEN stale ELSE stale \ {d}

\* domain_wake: the domain becomes runnable and the scheduler is told;
\* the migration mark is consumed by the wake
Wake(d) ==
    /\ ~is_idle_task(d)
    /\ bvt_wake(d)
    /\ dom' = [dom EXCEPT ![d].runnable = TRUE, ![d].migrated = FALSE]
    /\ last' = Record([op |-> "wake", d |-> d,
                        inserted |-> ~__task_on_runqueue(d),
                        pending |-> sd[dom[d].processor].softirq,
                        deadline |-> sd[dom[d].processor].s_timer.expires])
    /\ UNCHANGED <<env, svt, ctx_allow, now, pend, wpend>>

\* a sleep that unlinks the running domain as well
bvt_sleep_unlinks(d) ==
    IF dom[d].running
    THEN /\ sd' = [sd EXCEPT ![dom[d].processor].softirq = TRUE]
         /\ runqueue' = __del_from_runqueue(runqueue, d)
    ELSE /\ runqueue' = IF __task_on_runqueue(d)
                        THEN __del_from_runqueue(runqueue, d)
                        ELSE runqueue
         /\ UNCHANGED sd

\* bvt_sleep(d), called by domain_sleep once d is no longer runnable
bvt_sleep(d) ==
    IF dom[d].running
    THEN /\ sd' = [sd EXCEPT ![dom[d].processor].softirq = TRUE]
         /\ UNCHANGED runqueue
    ELSE /\ runqueue' = IF __task_on_runqueue(d)
                        THEN __del_from_runqueue(runqueue, d)
                        ELSE runqueue
         /\ UNCHANGED sd

\* domain_sleep, or the running domain blocking
Sleep(d) ==
    /\ ~is_idle_task(d)
    /\ dom[d].runnable
    /\ bvt_sleep(d)
    /\ dom' = [dom EXCEPT ![d].runnable = FALSE]
    /\ last' = Record([op |-> "sleep", d |-> d, running |-> dom[d].running,
                        queued |-> __task_on_runqueue(d)])
    /\ UNCHANGED <<env, inf, svt, ctx_allow, now, pend, wpend, stale>>

\* a scan step that takes the minimum over evt instead of avt
ScanStep_min_evt(s, p, I) ==
    LET s1 == IF Lt(I[p].evt, s.next_evt)
              THEN [s EXCEPT !.next_prime_inf = s.next_inf,
                             !.next_prime_evt = s.next_evt,
                             !.next_inf = p,
                             !.next_evt = I[p].evt]
              ELSE IF s.next_prime_evt = MaxU32
              THEN [s EXCEPT !.next_prime_evt = I[p].evt,
                             !.next_prime_inf = p]
              ELSE IF Lt(I[p].evt, s.next_prime_evt)
              THEN [s EXCEPT !.next_prime_evt = I[p].evt,
                             !.next_prime_inf = p]
              ELSE s
    IN  IF Lt(I[p].evt, s1.min_avt) THEN [s1 EXCEPT !.min_avt = I[p].evt]
        ELSE s1

\* one iteration of the list_for_each loop of bvt_do_schedule, on record p
ScanStep(s, p, I) ==
    LET s1 == IF Lt(I[p].evt, s.next_evt)
              THEN [s EXCEPT !.next_prime_inf = s.next_inf,
                             !.next_prime_evt = s.next_evt,
                             !.next_inf = p,
                             !.next_evt = I[p].evt]
              ELSE IF s.next_prime_evt = MaxU32
              THEN [s EXCEPT !.next_prime_evt = I[p].evt,
                             !.next_prime_inf = p]
              ELSE IF Lt(I[p].evt, s.next_prime_evt)
              THEN [s EXCEPT !.next_prime_evt = I[p].evt,
                             !.next_prime_inf = p]
              ELSE s
    IN  IF Lt(I[p].avt, s1.min_avt) THEN [s1 EXCEPT !.min_avt = I[p].avt]
        ELSE s1

\* the scan of run queue q, from the state s of its locals
RECURSIVE Scan(_, _, _)
Scan(s, q, I) ==
    IF q = <<>> THEN s ELSE Scan(ScanStep(s, Head(q), I), Tail(q), I)

\* a scan that starts from the idle record of the other CPU
ScanInitOtherIdle(cpu) ==
    [next_inf |-> IdleTask(1 - cpu), next_prime_inf |-> NULL,
     next_evt |-> MaxU32, next_prime_evt |-> MaxU32, min_avt |-> MaxU32]

\* the locals before the scan on cpu
ScanInit(cpu) ==
    [next_inf |-> IdleTask(cpu), next_prime_inf |-> NULL,
     next_evt |-> MaxU32, next_prime_evt |-> MaxU32, min_avt |-> MaxU32]

\* for_each_domain ( p ) if ( p->processor == cpu ): the domains the
\* overflow rebase covers
ForEachDomainOn(cpu) == {d \in Doms : dom[d].processor = cpu}

\* 10 * ctx_allow in int arithmetic: the product, or, when it overflows
\* (undefined behaviour), whatever the build yields: the wrapped product or
\* any other value, of which the extremes stand for the rest
TenTimes(x) ==
    LET p == Mul(x, 10)
    IN  IF Le(S32Min, p) /\ Le(p, S32Max) THEN {p}
        ELSE {S32(p), S32Min, S32Max}

\* ((next_prime_inf->evt - next_inf->evt) / next_inf->mcu_advance) + ctx_allow,
\* in unsigned arithmetic, stored in the s32 r_time
\* a two-task slice that does not divide by mcu_advance
TwoTaskSlice_undivided(prime_evt, next_evt, mcu_advance, ca) ==
    S32(Add(U32(Sub(prime_evt, next_evt)), ca))

TwoTaskSlice(prime_evt, next_evt, mcu_advance, ca) ==
    S32(Add(Div(U32(Sub(prime_evt, next_evt)), mcu_advance), ca))

\* bvt_do_schedule, lines 426-487, the part under the run queue lock: the
\* previous domain prev of cpu c is folded back at time t and the run queue
\* rq is scanned.  I is the bvt_dom_info table.  Yields the table, the run
\* queues and the locals of the function at the unlock.
FoldScan(c, I, rq, t) ==
    LET prev == sd[c].curr
        cpu == dom[prev].processor
        avtp == calc_avt(I, prev, t)
        inf1 == IF is_idle_task(prev) THEN I
                ELSE [I EXCEPT ![prev].avt = avtp,
                               ![prev].evt = calc_evt(I, prev, avtp),
                               ![prev].warp_timer = NoTimer]
        rq1 == IF is_idle_task(prev) THEN rq
               ELSE IF dom[prev].runnable
               THEN __add_to_runqueue_tail(__del_from_runqueue(rq, prev), prev)
               ELSE __del_from_runqueue(rq, prev)
        s == Scan(ScanInit(cpu), rq1[cpu], inf1)
    IN  [inf |-> inf1, rq |-> rq1, prev |-> prev, cpu |-> cpu, now |-> t,
         next |-> s.next_inf, next_prime |-> s.next_prime_inf,
         min_avt |-> s.min_avt, scanned |-> inf1,
         on_rq |-> \E k \in CPUs : prev \in Range(rq[k])]

\* a bvt_do_schedule that arms the warp timer whatever the warp limit is
Finish_arms_any_warp(p, I, sv, ca, ten) ==
    LET cpu == p.cpu
        next == p.next
        next_prime == p.next_prime
        svt1 == IF p.min_avt # MaxU32 THEN p.min_avt ELSE sv[cpu]
        rebase == Le(HighWater, svt1)
        inf2 == IF rebase
                THEN [d \in Doms |->
                        IF d \in ForEachDomainOn(cpu)
                        THEN [I[d] EXCEPT !.evt = U32(Sub(@, RebaseBy)),
                                          !.avt = U32(Sub(@, RebaseBy))]
                        ELSE I[d]]
                ELSE I
        svt2 == IF rebase THEN Sub(svt1, RebaseBy) ELSE svt1
        branch == IF is_idle_task(next) THEN "idle"
                  ELSE IF next_prime = NULL \/ is_idle_task(next_prime)
                  THEN "one" ELSE "two"
        r_time == CASE branch = "idle" -> ca
                    [] branch = "one" -> ten
                    [] branch = "two" ->
                         TwoTaskSlice(inf2[next_prime].evt, inf2[next].evt,
                                      inf2[next].mcu_advance, ca)
        asserts ==
            (IF p.on_rq THEN {} ELSE {"prev_on_runqueue"})
            \cup (IF branch = "two" /\ Lt(inf2[next_prime].evt, inf2[next].evt)
                  THEN {"evt_order"} ELSE {})
            \cup (IF branch = "two" /\ Lt(r_time, ca)
                  THEN {"r_time"} ELSE {})
        arm == inf2[next].warp = 1
        inf3 == IF arm
                THEN [inf2 EXCEPT ![next].warp_timer =
                         [active |-> TRUE,
                          expires |-> Add(p.now, inf2[next].warpl)]]
                ELSE inf2
    IN  [inf |-> inf3, svt |-> [sv EXCEPT ![cpu] = svt2],
         task |-> next, time |-> r_time,
         last |-> [op |-> "schedule", cpu |-> cpu, prev |-> p.prev,
                   next |-> next, next_prime |-> next_prime,
                   min_avt |-> p.min_avt, scanned |-> p.scanned,
                   svt_in |-> sv[cpu], svt_set |-> svt1, rebase |-> rebase,
                   branch |-> branch, r_time |-> r_time, ctx_allow |-> ca,
                   asserts |-> asserts, arm |-> arm,
                   rearm |-> arm /\ inf2[next].warp_timer.active]]

\* bvt_do_schedule, lines 489-556, after the unlock: system virtual time,
\* the overflow rebase, the time slice and the warp timer.  p holds the
\* locals left by FoldScan, I and sv are the bvt_dom_info table and the
\* CPU_SVT array as they are now, ca is ctx_allow and ten is 10 * ctx_allow.
Finish(p, I, sv, ca, ten) ==
    LET cpu == p.cpu
        next == p.next
        next_prime == p.next_prime
        svt1 == IF p.min_avt # MaxU32 THEN p.min_avt ELSE sv[cpu]
        rebase == Le(HighWater, svt1)
        inf2 == IF rebase
                THEN [d \in Doms |->
                        IF d \in ForEachDomainOn(cpu)
                        THEN [I[d] EXCEPT !.evt = U32(Sub(@, RebaseBy)),
                                          !.avt = U32(Sub(@, RebaseBy))]
                        ELSE I[d]]
                ELSE I
        svt2 == IF rebase THEN Sub(svt1, RebaseBy) ELSE svt1
        branch == IF is_idle_task(next) THEN "idle"
                  ELSE IF next_prime = NULL \/ is_idle_task(next_prime)
                  THEN "one" ELSE "two"
        r_time == CASE branch = "idle" -> ca
                    [] branch = "one" -> ten
                    [] branch = "two" ->
                         TwoTaskSlice(inf2[next_prime].evt, inf2[next].evt,
                                      inf2[next].mcu_advance, ca)
        asserts ==
            (IF p.on_rq THEN {} ELSE {"prev_on_runqueue"})
            \cup (IF branch = "two" /\ Lt(inf2[next_prime].evt, inf2[next].evt)
                  THEN {"evt_order"} ELSE {})
            \cup (IF branch = "two" /\ Lt(r_time, ca)
                  THEN {"r_time"} ELSE {})
        arm == inf2[next].warp = 1 /\ Lt(Zero, inf2[next].warpl)
        inf3 == IF arm
                THEN [inf2 EXCEPT ![next].warp_timer =
                         [active |-> TRUE,
                          expires |-> Add(p.now, inf2[next].warpl)]]
                ELSE inf2
    IN  [inf |-> inf3, svt |-> [sv EXCEPT ![cpu] = svt2],
         task |-> next, time |-> r_time,
         last |-> [op |-> "schedule", cpu |-> cpu, prev |-> p.prev,
                   next |-> next, next_prime |-> next_prime,
                   min_avt |-> p.min_avt, scanned |-> p.scanned,
                   svt_in |-> sv[cpu], svt_set |-> svt1, rebase |-> rebase,
                   branch |-> branch, r_time |-> r_time, ctx_allow |-> ca,
                   asserts |-> asserts, arm |-> arm,
                   rearm |-> arm /\ inf2[next].warp_timer.active]]

\* __enter_scheduler after do_schedule returned (task, time) at time t on
\* cpu c: the new current domain, its lastschd, the running flags, the
\* reschedule timer; the softirq has been taken
Dispatch(c, prev, task, time, t) ==
    /\ dom' = [d \in Doms |->
                 IF d = task
                 THEN [dom[d] EXCEPT !.running = TRUE]
                 ELSE IF d = prev THEN [dom[d] EXCEPT !.running = FALSE]
                 ELSE dom[d]]
    /\ sd' = [sd EXCEPT ![c] =
                [curr |-> task, lastschd |-> t, softirq |-> FALSE,
                 s_timer |-> [active |-> TRUE, expires |-> Add(t, time)]]]

\* one whole reschedule on cpu c, with no other handler in between
Reschedule(c) ==
    \E ten \in TenTimes(ctx_allow) :
    LET p == FoldScan(c, inf, runqueue, now)
        f == Finish(p, p.inf, svt, ctx_allow, ten)
    IN  /\ p.on_rq
        /\ inf' = f.inf
        /\ runqueue' = p.rq
        /\ svt' = f.svt
        /\ Dispatch(c, p.prev, f.task, f.time, now)
        /\ stale' = stale \ {p.prev}
        /\ last' = f.last
        /\ UNCHANGED <<ctx_allow, now, env, pend, wpend>>

\* The same reschedule as the two steps the code takes it in: up to the
\* release of the run queue lock at line 487 ...
SchedScan(c) ==
    LET p == FoldScan(c, inf, runqueue, now)
        rec == [busy |-> TRUE,
                prev |-> p.prev, cpu |-> p.cpu, now |-> p.now,
                next |-> p.next, next_prime |-> p.next_prime,
                min_avt |-> p.min_avt, scanned |-> p.scanned,
                on_rq |-> p.on_rq]
    IN  /\ ~pend[c].busy
        /\ IF p.on_rq
           THEN /\ inf' = p.inf
                /\ runqueue' = p.rq
                /\ stale' = stale \ {p.prev}
                /\ last' = NoOp
           ELSE \* prev is on no queue: ASSERT(__task_on_runqueue(prev)) of
                \* line 430 fails; with ASSERT compiled out, avt and evt
                \* are written and list_del of line 438 follows the NULL
                \* link that the earlier __del_from_runqueue left.  The
                \* CPU stops inside bvt_do_schedule either way.
                /\ inf' \in {inf, p.inf}
                /\ runqueue' = runqueue
                /\ stale' = stale
                /\ last' = [op |-> "panic", cpu |-> c, prev |-> p.prev]
        /\ pend' = [pend EXCEPT ![c] = rec]
        /\ UNCHANGED <<dom, svt, sd, ctx_allow, now, wpend, env>>

SchedFinish(c) ==
    \E ten \in TenTimes(ctx_allow) :
    LET p == pend[c]
        f == Finish(p, inf, svt, ctx_allow, ten)
    IN  /\ pend[c].busy
        /\ pend[c].on_rq
        /\ inf' = f.inf
        /\ svt' = f.svt
        /\ Dispatch(c, p.prev, f.task, f.time, p.now)
        /\ pend' = [pend EXCEPT ![c] = NotIn]
        /\ last' = f.last
        /\ UNCHANGED <<runqueue, ctx_allow, now, wpend, stale, env>>

\* domain_wake on another CPU, up to bvt_wake's release of the run queue
\* lock at line 269 ...
WakeQueue(d) ==
    LET w == wake_queue(d, inf, runqueue, svt)
    IN  /\ ~is_idle_task(d)
        /\ ~wpend[d].busy
        /\ inf' = w.inf
        /\ runqueue' = w.rq
        /\ dom' = [dom EXCEPT ![d].runnable = TRUE, ![d].migrated = FALSE]
        /\ wpend' = [wpend EXCEPT ![d] = IF w.done THEN NotIn
                                         ELSE [busy |-> TRUE, now |-> now]]
        /\ stale' = IF w.done THEN stale ELSE stale \ {d}
        /\ last' = NoOp
        /\ UNCHANGED <<svt, sd, ctx_allow, now, pend, env>>

\* ... and its part under the schedule lock, which a CPU holds for the
\* whole of its reschedule
WakeResched(d) ==
    /\ wpend[d].busy
    /\ ~pend[dom[d].processor].busy
    /\ sd' = wake_resched(d, inf, wpend[d].now)
    /\ wpend' = [wpend EXCEPT ![d] = NotIn]
    /\ last' = NoOp
    /\ UNCHANGED <<inf, dom, runqueue, svt, ctx_allow, now, pend, stale, env>>

\* a warp_timer_fn that leaves warpback set when there is no unwarp time
warp_timer_fn_keeps(d) ==
    /\ inf[d].warp_timer.active
    /\ Le(inf[d].warp_timer.expires, now)
    /\ inf' = IF inf[d].warpu = Zero
              THEN [inf EXCEPT ![d].warp_timer = NoTimer, ![d].warp = 0]
              ELSE [inf EXCEPT ![d].warp_timer = NoTimer,
                               ![d].warp = 0,
                               ![d].unwarp_timer =
                                   [active |-> TRUE,
                                    expires |-> Add(now, inf[d].warpu)]]
    /\ sd' = [sd EXCEPT ![dom[d].processor].softirq = TRUE]
    /\ stale' = stale \cup {d}
    /\ last' = Record([op |-> "warp_timer", d |-> d,
                        rearm |-> /\ inf[d].warpu # Zero
                                  /\ inf[d].unwarp_timer.active
                                  /\ Lt(now, inf[d].unwarp_timer.expires)])
    /\ UNCHANGED <<env, dom, runqueue, svt, ctx_allow, now, pend, wpend>>

\* the warp timer of d expires
warp_timer_fn(d) ==
    /\ inf[d].warp_timer.active
    /\ Le(inf[d].warp_timer.expires, now)
    /\ inf' = IF inf[d].warpu = Zero
              THEN [inf EXCEPT ![d].warp_timer = NoTimer,
                               ![d].warp = 0, ![d].warpback = 0]
              ELSE [inf EXCEPT ![d].warp_timer = NoTimer,
                               ![d].warp = 0,
                               ![d].unwarp_timer =
                                   [active |-> TRUE,
                                    expires |-> Add(now, inf[d].warpu)]]
    /\ sd' = [sd EXCEPT ![dom[d].processor].softirq = TRUE]
    /\ stale' = stale \cup {d}
    /\ last' = Record([op |-> "warp_timer", d |-> d,
                        rearm |-> /\ inf[d].warpu # Zero
                                  /\ inf[d].unwarp_timer.active
                                  /\ Lt(now, inf[d].unwarp_timer.expires)])
    /\ UNCHANGED <<env, dom, runqueue, svt, ctx_allow, now, pend, wpend>>

\* an unwarp_timer_fn that does not look at warpback
unwarp_timer_fn_always(d) ==
    /\ inf[d].unwarp_timer.active
    /\ Le(inf[d].unwarp_timer.expires, now)
    /\ inf' = [inf EXCEPT ![d].unwarp_timer = NoTimer, ![d].warp = 1]
    /\ sd' = [sd EXCEPT ![dom[d].processor].softirq = TRUE]
    /\ stale' = stale \cup {d}
    /\ last' = Record([op |-> "unwarp_timer", d |-> d])
    /\ UNCHANGED <<env, dom, runqueue, svt, ctx_allow, now, pend, wpend>>

\* the unwarp timer of d expires
unwarp_timer_fn(d) ==
    /\ inf[d].unwarp_timer.active
    /\ Le(inf[d].unwarp_timer.expires, now)
    /\ inf' = IF inf[d].warpback # 0
              THEN [inf EXCEPT ![d].unwarp_timer = NoTimer, ![d].warp = 1]
              ELSE [inf EXCEPT ![d].unwarp_timer = NoTimer]
    /\ sd' = IF inf[d].warpback # 0
             THEN [sd EXCEPT ![dom[d].processor].softirq = TRUE]
             ELSE sd
    /\ stale' = IF inf[d].warpback # 0 THEN stale \cup {d} ELSE stale
    /\ last' = Record([op |-> "unwarp_timer", d |-> d])
    /\ UNCHANGED <<env, dom, runqueue, svt, ctx_allow, now, pend, wpend>>

\* bvt_ctl, direction SCHED_INFO_PUT
bvt_ctl_put(ca) ==
    /\ ctx_allow' = ca
    /\ last' = NoOp
    /\ UNCHANGED <<env, inf, dom, runqueue, svt, sd, now, pend, wpend, stale>>

\* a bvt_adjdom that does not check mcu_adv
bvt_adjdom_put_unchecked(d, p) ==
    /\ inf' = [inf EXCEPT ![d].mcu_advance = p.mcu_adv,
                          ![d].warpback = p.warpback,
                          ![d].warp = 1,
                          ![d].warp_value = p.warpvalue,
                          ![d].warpl = p.warpl,
                          ![d].warpu = p.warpu]
    /\ stale' = stale \cup {d}
    /\ last' = NoOp
    /\ UNCHANGED <<env, dom, runqueue, svt, sd, ctx_allow, now, pend, wpend>>

\* a bvt_adjdom that brings evt up to date with the new warp at once
bvt_adjdom_put_recomputes(d, p) ==
    /\ inf' = IF p.mcu_adv = 0 THEN inf
              ELSE [inf EXCEPT ![d].mcu_advance = p.mcu_adv,
                               ![d].warpback = p.warpback,
                               ![d].warp = 1,
                               ![d].warp_value = p.warpvalue,
                               ![d].warpl = p.warpl,
                               ![d].warpu = p.warpu,
                               ![d].evt = U32(Sub(inf[d].avt, p.warpvalue))]
    /\ stale' = stale
    /\ last' = IF p.mcu_adv = 0
               THEN [op |-> "adjdom", d |-> d, ret |-> "EINVAL"]
               ELSE NoOp
    /\ UNCHANGED <<env, dom, runqueue, svt, sd, ctx_allow, now, pend, wpend>>

\* bvt_adjdom, direction SCHED_INFO_PUT, on guest d with parameter block p;
\* a request it rejects is recorded with the value it returns
bvt_adjdom_put(d, p) ==
    /\ inf' = IF p.mcu_adv = 0 THEN inf
              ELSE [inf EXCEPT ![d].mcu_advance = p.mcu_adv,
                               ![d].warpback = p.warpback,
                               ![d].warp = 1,
                               ![d].warp_value = p.warpvalue,
                               ![d].warpl = p.warpl,
                               ![d].warpu = p.warpu]
    /\ stale' = IF p.mcu_adv = 0 THEN stale ELSE stale \cup {d}
    /\ last' = IF p.mcu_adv = 0
               THEN [op |-> "adjdom", d |-> d, ret |-> "EINVAL"]
               ELSE NoOp
    /\ UNCHANGED <<env, dom, runqueue, svt, sd, ctx_allow, now, pend, wpend>>

\* a blocked guest is moved to another CPU and marked DF_MIGRATED
Migrate(d, c) ==
    /\ ~is_idle_task(d)
    /\ ~dom[d].running /\ ~dom[d].runnable /\ ~__task_on_runqueue(d)
    /\ dom[d].processor # c
    /\ dom' = [dom EXCEPT ![d].processor = c, ![d].migrated = TRUE]
    /\ last' = NoOp
    /\ UNCHANGED <<env, inf, runqueue, svt, sd, ctx_allow, now, pend, wpend,
                   stale>>

Next ==
    \/ Tick
    \/ \E d \in Guests : Wake(d)
    \/ \E d \in Guests : Sleep(d)
    \/ \E c \in SchedCPUs(env) : Reschedule(c)
    \/ \E d \in Guests : warp_timer_fn(d)
    \/ \E d \in Guests : unwarp_timer_fn(d)
    \/ \E ca \in CtxAllowSet(env) : bvt_ctl_put(ca)
    \/ \E d \in AdjDoms, p \in AdjParams(env) : bvt_adjdom_put(d, p)
    \/ \E d \in MigrateDoms(env), c \in CPUs : Migrate(d, c)

Spec == Init /\ [][Next]_vars

\* The handlers with CPU 0 at svt 1000 and a warp of 100 given to guest A.
InitScene == Boot("scene")

NextScene ==
    \/ Tick
    \/ \E d \in Guests : Wake(d)
    \/ \E d \in Guests : Sleep(d)
    \/ \E c \in SchedCPUs(env) : Reschedule(c)
    \/ \E d \in Guests : warp_timer_fn(d)
    \/ \E d \in Guests : unwarp_timer_fn(d)
    \/ \E d \in AdjDoms, p \in AdjParams(env) : bvt_adjdom_put(d, p)

SpecScene == InitScene /\ [][NextScene]_vars

\* bvt_free_task(p), lines 314-318: ASSERT(p->sched_priv != NULL) and the
\* release of the record.  It is called for a guest that has been put to
\* sleep and is no longer running; the record is gone afterwards, and last
\* keeps what it was still linked to.
bvt_free_task(d) ==
    /\ ~is_idle_task(d)
    /\ ~dom[d].running /\ ~dom[d].runnable
    /\ last' = [op |-> "free", d |-> d,
                on_rq |-> __task_on_runqueue(d),
                warp_timer |-> inf[d].warp_timer.active,
                unwarp_timer |-> inf[d].unwarp_timer.active]
    /\ UNCHANGED <<env, inf, dom, runqueue, svt, sd, ctx_allow, now, pend,
                   wpend, stale>>

\* The handlers and the destruction of one guest; nothing is run on the
\* scheduler once a record has been released.
InitFree == Boot("free")

Released == last.op = "free"

NextFree ==
    \/ ~Released /\ Tick
    \/ \E d \in Guests : ~Released /\ Wake(d)
    \/ \E d \in Guests : ~Released /\ Sleep(d)
    \/ \E c \in SchedCPUs(env) : ~Released /\ Reschedule(c)
    \/ \E d \in Guests : ~Released /\ warp_timer_fn(d)
    \/ \E d \in Guests : ~Released /\ unwarp_timer_fn(d)
    \/ \E d \in AdjDoms, p \in AdjParams(env) :
          ~Released /\ bvt_adjdom_put(d, p)
    \/ \E d \in Guests : ~Released /\ bvt_free_task(d)

SpecFree == InitFree /\ [][NextFree]_vars

\* The CPU that issues the set-domain-parameters requests.
ControlCPU == 1

\* run_lock of CPU c is held by a request in progress
RunLockHeld(c) ==
    \E k \in CPUs : pend[k].busy /\ pend[k].op = "adjdom" /\ pend[k].lock = c

\* bvt_adjdom, SCHED_INFO_PUT, lines 368-375: the test of mcu_adv, the
\* acquisition of run_lock of the domain's CPU and the writes of
\* mcu_advance, warpback and warp
AdjdomLock(d, p) ==
    /\ p.mcu_adv # 0
    /\ ~pend[ControlCPU].busy
    /\ ~RunLockHeld(dom[d].processor)
    /\ inf' = [inf EXCEPT ![d].mcu_advance = p.mcu_adv,
                          ![d].warpback = p.warpback,
                          ![d].warp = 1]
    /\ pend' = [pend EXCEPT ![ControlCPU] =
                   [busy |-> TRUE, op |-> "adjdom", d |-> d, p |-> p,
                    lock |-> dom[d].processor]]
    /\ last' = NoOp
    /\ UNCHANGED <<env, dom, runqueue, svt, sd, ctx_allow, now, wpend, stale>>

\* bvt_adjdom, SCHED_INFO_PUT, lines 376-385: the writes of warp_value,
\* warpl and warpu and the release of run_lock
AdjdomUnlock ==
    LET r == pend[ControlCPU]
    IN  /\ r.busy
        /\ inf' = [inf EXCEPT ![r.d].warp_value = r.p.warpvalue,
                              ![r.d].warpl = r.p.warpl,
                              ![r.d].warpu = r.p.warpu]
        /\ pend' = [pend EXCEPT ![ControlCPU] = NotIn]
        /\ stale' = stale \cup {r.d}
        /\ last' = NoOp
        /\ UNCHANGED <<env, dom, runqueue, svt, sd, ctx_allow, now, wpend>>

\* The handlers with the parameter set taken in two steps, run_lock held in
\* between.  bvt_wake, bvt_sleep and bvt_do_schedule take run_lock and wait
\* for it; warp_timer_fn and unwarp_timer_fn take no lock.
InitLock == Boot("lock")

NextLock ==
    \/ Tick
    \/ \E d \in Guests : ~RunLockHeld(dom[d].processor) /\ Wake(d)
    \/ \E d \in Guests : ~RunLockHeld(dom[d].processor) /\ Sleep(d)
    \/ \E c \in SchedCPUs(env) : ~RunLockHeld(c) /\ Reschedule(c)
    \/ \E d \in Guests : warp_timer_fn(d)
    \/ \E d \in Guests : unwarp_timer_fn(d)
    \/ \E d \in AdjDoms, p \in AdjParams(env) : AdjdomLock(d, p)
    \/ AdjdomUnlock

SpecLock == InitLock /\ [][NextLock]_vars

\* The handlers at the grain of their critical sections: a reschedule of one
\* CPU interleaved with the wakes and sleeps that other CPUs issue.
InitRace == Boot("race")


NextRace ==
    \/ Tick
    \/ \E d \in Guests : WakeQueue(d)
    \/ \E d \in Guests : WakeResched(d)
    \/ \E d \in Guests : Sleep(d)
    \/ \E c \in SchedCPUs(env) : SchedScan(c)
    \/ \E c \in SchedCPUs(env) : SchedFinish(c)

SpecRace == InitRace /\ [][NextRace]_vars

\* CPU c is inside a reschedule that has lowered the avt and evt of its
\* domains and not yet its svt (between lines 514 and 516)
Rebasing(c) == pend[c].busy /\ "svt_set" \in DOMAIN pend[c]

\* the svt update of lines 494-495 is about to reach the overflow guard of
\* line 498
RebaseDue(c) ==
    /\ pend[c].busy /\ pend[c].on_rq /\ ~Rebasing(c)
    /\ Le(HighWater, IF pend[c].min_avt # MaxU32 THEN pend[c].min_avt
                     ELSE svt[c])

\* bvt_do_schedule, lines 489-514, when the guard of line 498 holds: svt is
\* set to min_avt and, under tasklist_lock, 0xe0000000 is taken from the
\* evt and avt of every domain of the CPU
SchedRebase(c) ==
    LET p == pend[c]
        svt1 == IF p.min_avt # MaxU32 THEN p.min_avt ELSE svt[c]
    IN  /\ RebaseDue(c)
        /\ svt' = [svt EXCEPT ![c] = svt1]
        /\ inf' = [d \in Doms |->
                     IF d \in ForEachDomainOn(c)
                     THEN [inf[d] EXCEPT !.evt = U32(Sub(@, RebaseBy)),
                                         !.avt = U32(Sub(@, RebaseBy))]
                     ELSE inf[d]]
        /\ pend' = [pend EXCEPT ![c] =
                       [busy |-> TRUE, prev |-> p.prev, cpu |-> p.cpu,
                        now |-> p.now, next |-> p.next,
                        next_prime |-> p.next_prime, min_avt |-> p.min_avt,
                        scanned |-> p.scanned, on_rq |-> p.on_rq,
                        svt_in |-> svt[c], svt_set |-> svt1]]
        /\ last' = NoOp
        /\ UNCHANGED <<dom, runqueue, sd, ctx_allow, now, wpend, stale, env>>

\* bvt_do_schedule, lines 516-556, after the rebase loop: 0xe0000000 is
\* taken from svt, the slice is worked out and the warp timer armed
FinishRebased(p, I, sv, ca, ten) ==
    LET cpu == p.cpu
        next == p.next
        next_prime == p.next_prime
        svt2 == U32(Sub(sv[cpu], RebaseBy))
        branch == IF is_idle_task(next) THEN "idle"
                  ELSE IF next_prime = NULL \/ is_idle_task(next_prime)
                  THEN "one" ELSE "two"
        r_time == CASE branch = "idle" -> ca
                    [] branch = "one" -> ten
                    [] branch = "two" ->
                         TwoTaskSlice(I[next_prime].evt, I[next].evt,
                                      I[next].mcu_advance, ca)
        asserts ==
            (IF branch = "two" /\ Lt(I[next_prime].evt, I[next].evt)
             THEN {"evt_order"} ELSE {})
            \cup (IF branch = "two" /\ Lt(r_time, ca)
                  THEN {"r_time"} ELSE {})
        arm == I[next].warp = 1 /\ Lt(Zero, I[next].warpl)
        inf3 == IF arm
                THEN [I EXCEPT ![next].warp_timer =
                         [active |-> TRUE,
                          expires |-> Add(p.now, I[next].warpl)]]
                ELSE I
    IN  [inf |-> inf3, svt |-> [sv EXCEPT ![cpu] = svt2],
         task |-> next, time |-> r_time,
         last |-> [op |-> "schedule", cpu |-> cpu, prev |-> p.prev,
                   next |-> next, next_prime |-> next_prime,
                   min_avt |-> p.min_avt, scanned |-> p.scanned,
                   svt_in |-> p.svt_in, svt_set |-> p.svt_set,
                   rebase |-> TRUE,
                   branch |-> branch, r_time |-> r_time, ctx_allow |-> ca,
                   asserts |-> asserts, arm |-> arm,
                   rearm |-> arm /\ I[next].warp_timer.active]]

SchedRebased(c) ==
    \E ten \in TenTimes(ctx_allow) :
    LET p == pend[c]
        f == FinishRebased(p, inf, svt, ctx_allow, ten)
    IN  /\ Rebasing(c)
        /\ inf' = f.inf
        /\ svt' = f.svt
        /\ Dispatch(c, p.prev, f.task, f.time, p.now)
        /\ pend' = [pend EXCEPT ![c] = NotIn]
        /\ last' = f.last
        /\ UNCHANGED <<runqueue, ctx_allow, now, wpend, stale, env>>

\* The handlers at the grain of their critical sections, with virtual time
\* at the overflow guard: the rebase of a reschedule is two steps, the loop
\* under tasklist_lock and the write of svt that follows it.
InitWrap == Boot("wrap")

NextWrap ==
    \/ Tick
    \/ \E d \in Guests : WakeQueue(d)
    \/ \E d \in Guests : WakeResched(d)
    \/ \E d \in Guests : Sleep(d)
    \/ \E c \in SchedCPUs(env) : SchedScan(c)
    \/ \E c \in SchedCPUs(env) :
          ~Rebasing(c) /\ ~RebaseDue(c) /\ SchedFinish(c)
    \/ \E c \in SchedCPUs(env) : SchedRebase(c)
    \/ \E c \in SchedCPUs(env) : SchedRebased(c)

SpecWrap == InitWrap /\ [][NextWrap]_vars

\* Virtual time, in mcus, up to which the guests are followed.
MaxAvt == 60

\* timer tm seen e later
Later(tm, e) == IF tm.active THEN [tm EXCEPT !.expires = Sub(@, e)] ELSE tm

\* the instants at which a timer of a rescheduling CPU or of a guest expires
LiveInstants ==
    {sd[c].s_timer.expires : c \in {k \in SchedCPUs(env) : sd[k].s_timer.active}}
    \cup {inf[d].warp_timer.expires : d \in {g \in Guests : inf[g].warp_timer.active}}
    \cup {inf[d].unwarp_timer.expires :
             d \in {g \in Guests : inf[g].unwarp_timer.active}}

NextInstant == CHOOSE e \in LiveInstants : \A x \in LiveInstants : Le(e, x)

\* the guests have been followed as far as MaxAvt
AvtCapped == \E g \in Guests : ~Lt(inf[g].avt, Num(MaxAvt))

\* SCHEDULE_SOFTIRQ is pending on CPU c or its s_timer has expired
Due(c) ==
    sd[c].softirq \/ (sd[c].s_timer.active /\ Le(sd[c].s_timer.expires, now))

\* Time passes up to the next timer expiry.  The clock of this
\* specification is read relative to the present instant: now stays 0 and
\* every stored instant (lastschd, the expiry of s_timer and of the warp and
\* unwarp timers) moves back by the time that passed, which leaves every
\* difference the handlers compute as it is.
LiveElapse ==
    /\ LiveInstants # {}
    /\ \A c \in SchedCPUs(env) : ~sd[c].softirq
    /\ Lt(now, NextInstant)
    /\ ~AvtCapped
    /\ LET e == Sub(NextInstant, now)
       IN  /\ sd' = [c \in CPUs |->
                       IF c \in SchedCPUs(env)
                       THEN [sd[c] EXCEPT !.lastschd = Sub(@, e),
                                          !.s_timer = Later(@, e)]
                       ELSE sd[c]]
           /\ inf' = [d \in Doms |->
                        [inf[d] EXCEPT !.warp_timer = Later(@, e),
                                       !.unwarp_timer = Later(@, e)]]
    /\ last' = NoOp
    /\ UNCHANGED <<env, dom, runqueue, svt, ctx_allow, now, pend, wpend, stale>>

\* bvt_do_schedule on CPU c when the softirq or the timer calls for it
LiveReschedule == \E c \in SchedCPUs(env) : Due(c) /\ Reschedule(c)

LiveTimers == \E d \in Guests : warp_timer_fn(d) \/ unwarp_timer_fn(d)

\* The handlers on a CPU that is left to run: guest A's parameters are set
\* while it is blocked, blocked guests are woken, time passes from one
\* timer expiry to the next and each expiry is served.
InitLive == Boot("live")

NextLive ==
    \/ LiveElapse
    \/ \E d \in Guests : ~__task_on_runqueue(d) /\ Wake(d)
    \/ \E c \in SchedCPUs(env) : Due(c) /\ Reschedule(c)
    \/ \E d \in Guests : warp_timer_fn(d)
    \/ \E d \in Guests : unwarp_timer_fn(d)
    \/ \E d \in AdjDoms, p \in AdjParams(env) :
          ~__task_on_runqueue(d) /\ bvt_adjdom_put(d, p)

\* LiveReschedule can be taken: a reschedule is called for and its
\* previous domain is on the run queue
RescheduleReady ==
    \E c \in SchedCPUs(env) : Due(c) /\ __task_on_runqueue(sd[c].curr)

\* Time passes, an expired timer runs its callback and a pending
\* SCHEDULE_SOFTIRQ runs bvt_do_schedule.  The last conjunct is
\* WF_vars(LiveReschedule) with its enabling condition written out.
SpecLive ==
    /\ InitLive /\ [][NextLive]_vars
    /\ WF_vars(LiveElapse)
    /\ WF_vars(LiveTimers)
    /\ ([]<>~RescheduleReady \/ []<><<LiveReschedule>>_vars)

\* The values of params->ctx_allow that a request carries: an unsigned long
\* of 32 bits, 5 ms or 0x80000000.
CtxWords == {CtxAllowInit, W(32768, 0)}

\* bvt_ctl, direction SCHED_INFO_GET, line 340: the s32 ctx_allow is stored
\* in the unsigned long of the request
bvt_ctl_get ==
    /\ last' = [op |-> "ctl_get", ctx_allow |-> U32(ctx_allow)]
    /\ UNCHANGED <<env, inf, dom, runqueue, svt, sd, ctx_allow, now, pend,
                   wpend, stale>>

\* a read-back that reports the warp limit for the unwarp time
AdjdomGet_limit(I, d) ==
    [mcu_adv |-> I[d].mcu_advance, warpvalue |-> I[d].warp_value,
     warpback |-> I[d].warpback, warpl |-> I[d].warpl, warpu |-> I[d].warpl]

\* bvt_adjdom, direction SCHED_INFO_GET, lines 392-396: the parameter
\* block filled from the record of d in table I
AdjdomGet(I, d) ==
    [mcu_adv |-> I[d].mcu_advance, warpvalue |-> I[d].warp_value,
     warpback |-> I[d].warpback, warpl |-> I[d].warpl, warpu |-> I[d].warpu]

\* bvt_adjdom, direction SCHED_INFO_GET, on guest d
bvt_adjdom_get(d) ==
    /\ last' = [op |-> "adjdom_get", d |-> d, params |-> AdjdomGet(inf, d)]
    /\ UNCHANGED <<env, inf, dom, runqueue, svt, sd, ctx_allow, now, pend,
                   wpend, stale>>

\* The handlers with the two control requests in both directions; guest B
\* stays blocked.
InitCtl == Boot("ctl")

NextCtl ==
    \/ Tick
    \/ \E d \in AdjDoms : Wake(d)
    \/ \E d \in AdjDoms : Sleep(d)
    \/ \E c \in SchedCPUs(env) : Reschedule(c)
    \/ \E d \in Guests : warp_timer_fn(d)
    \/ \E d \in Guests : unwarp_timer_fn(d)
    \/ \E x \in CtxWords : bvt_ctl_put(S32(x))
    \/ bvt_ctl_get
    \/ \E d \in AdjDoms, p \in AdjParams(env) : bvt_adjdom_put(d, p)
    \/ \E d \in AdjDoms : bvt_adjdom_get(d)

SpecCtl == InitCtl /\ [][NextCtl]_vars

(***************************************************************************)
(* Properties                                                              *)
(***************************************************************************)
\* a reschedule has just returned
Scheduled == last.op = "schedule"

\* the position in queue q, among the positions S, of the record with the
\* least evt in table I, the earliest position winning a tie
FirstLeast(q, I, S) ==
    CHOOSE i \in S :
        \A j \in S \ {i} :
            \/ Lt(I[q[i]].evt, I[q[j]].evt)
            \/ I[q[i]].evt = I[q[j]].evt /\ i < j

\* C1: the scan of a reschedule returns as next the queued record with the
\* least evt and as next_prime the one with the second least, the record
\* earlier in the queue winning a tie, and as min_avt the least avt on the
\* queue, whatever the queue holds.
ScanPicksLeastTwo ==
    Scheduled =>
        LET q == runqueue[last.cpu]
            I == last.scanned
            all == 1..Len(q)
            i1 == FirstLeast(q, I, all)
        IN  /\ last.next = q[i1]
            /\ Len(q) >= 2 =>
                   last.next_prime = q[FirstLeast(q, I, all \ {i1})]
            /\ \E i \in all : I[q[i]].avt = last.min_avt
            /\ \A i \in all : Le(last.min_avt, I[q[i]].avt)

\* C2: a domain record is linked into at most one run queue, and at most
\* once into that one.
OnOneQueueOnce ==
    \A d \in Doms :
        Cardinality({<<c, i>> \in CPUs \X (1..Cardinality(Doms) + 1) :
                        i <= Len(runqueue[c]) /\ runqueue[c][i] = d}) <= 1

\* a guest that ran on CPU 0 and was folded back to the tail there has moved
\* and is queued on CPU 1
QueuedOnOtherCpu ==
    \E d \in Guests :
        /\ d \in Range(runqueue[1])
        /\ Scheduled /\ last.cpu = 1 /\ last.prev = d

\* the quotient a / m of C for a of either sign: truncated towards zero
Quot(a, m) == IF Lt(a, Zero) THEN Sub(Zero, Div(Sub(Zero, a), m)) ELSE Div(a, m)

\* C3: the slice a reschedule returns is ctx_allow when next is the idle
\* domain, 10 * ctx_allow when next_prime is absent or the idle domain, and
\* otherwise (next_prime.evt - next.evt) / next.mcu_advance + ctx_allow, the
\* numbers being the integers the fields hold.
SliceFormula ==
    Scheduled =>
        LET next == last.next
            prime == last.next_prime
        IN  last.r_time =
              IF is_idle_task(next) THEN last.ctx_allow
              ELSE IF prime = NULL \/ is_idle_task(prime)
              THEN Mul(last.ctx_allow, 10)
              ELSE Add(Quot(Sub(inf[prime].evt, inf[next].evt),
                            inf[next].mcu_advance),
                       last.ctx_allow)

\* C4: when a reschedule takes the two-task branch, next_prime.evt >=
\* next.evt and the slice is at least ctx_allow, for every allowance the
\* control interface installs.
TwoTaskSliceBounds ==
    Scheduled /\ last.branch = "two" =>
        /\ Le(inf[last.next].evt, inf[last.next_prime].evt)
        /\ Le(last.ctx_allow, last.r_time)

\* C5: from one reschedule of a CPU to the next the CPU's system virtual
\* time does not decrease, unless the later one rebased, whatever other
\* CPUs do in between.
SvtMonotone ==
    Scheduled /\ ~Le(W(61440, 0), last.svt_set) =>
        Le(last.svt_in, svt[last.cpu])

\* C6: a reschedule returns the idle domain only when no other domain is on
\* the CPU's run queue.
IdleOnlyWhenAlone ==
    Scheduled /\ is_idle_task(last.next) =>
        Range(runqueue[last.cpu]) \subseteq {IdleTask(last.cpu)}

\* x - 0xe0000000 as a 32-bit unsigned subtraction yields it: the difference
\* for x from 0xe0000000 up, and 2^32 more than the difference below that
Lowered(x) ==
    IF Le(W(57344, 0), x) THEN Sub(x, W(57344, 0))
    ELSE Add(Sub(x, W(57344, 0)), W(65536, 0))

RebaseKeepsOrder ==
    Scheduled /\ Le(W(61440, 0), last.svt_set) =>
        \A a, b \in {d \in Doms : dom[d].processor = last.cpu} :
            Lt(last.scanned[a].evt, last.scanned[b].evt)
                <=> Lt(inf[a].evt, inf[b].evt)

\* the domains linked into some run queue
Queued == UNION {Range(runqueue[c]) : c \in CPUs}

\* C9 as stated: every domain on a run queue has evt <= avt, with equality
\* exactly when its warp flag is clear.
QueuedEvtLeAvt ==
    \A d \in Queued :
        /\ Le(inf[d].evt, inf[d].avt)
        /\ inf[d].evt = inf[d].avt <=> inf[d].warp = 0

\* C9: a domain on a run queue whose warp flag and warp value are as they
\* were when its evt was last computed has evt = avt if the flag is clear,
\* and evt < avt if the flag is set and 0 < warp_value <= avt.
QueuedFreshEvtLeAvt ==
    \A d \in Queued \ stale :
        /\ inf[d].warp = 0 => inf[d].evt = inf[d].avt
        /\ inf[d].warp = 1 /\ Lt(Zero, inf[d].warp_value)
                           /\ Le(inf[d].warp_value, inf[d].avt)
               => Lt(inf[d].evt, inf[d].avt)

\* a warping guest is queued with an evt computed from its present warp
\* value, which is positive and not above its avt
QueuedWarping ==
    \E d \in (Queued \cap Guests) \ stale :
        /\ inf[d].warp = 1 /\ Lt(Zero, inf[d].warp_value)
        /\ Le(inf[d].warp_value, inf[d].avt)

\* avt - warp_value in 32 bits if the flag is set, avt otherwise
Effective(r) ==
    IF r.warp = 1 THEN U32(Sub(r.avt, r.warp_value)) ELSE r.avt

\* C10 as stated: in every state, of every domain, evt is avt - warp_value
\* if the warp flag is set and avt otherwise.
EvtIsEffective == \A d \in Doms : inf[d].evt = Effective(inf[d])

\* C10: the same of every domain whose warp flag and warp value have not
\* been written since its evt was last computed by a wake or a reschedule.
FreshEvtIsEffective ==
    \A d \in Doms \ stale : inf[d].evt = Effective(inf[d])

\* a guest whose flag a timer or a request wrote has been through a
\* reschedule since, and warps
RecomputedWarping ==
    \E d \in Guests \ stale :
        /\ Scheduled /\ last.prev = d
        /\ inf[d].warp = 1 /\ inf[d].evt # inf[d].avt

\* the domains that are running on CPU c
RunningOn(c) == {d \in Doms : dom[d].running /\ dom[d].processor = c}

\* C11 as stated: each CPU has exactly one current domain, and that domain
\* is not on the run queue.
CurrentOffQueue ==
    \A c \in CPUs :
        /\ RunningOn(c) = {sd[c].curr}
        /\ sd[c].curr \notin Range(runqueue[c])

\* C11: each CPU has exactly one current domain, and that domain is on its
\* CPU's run queue; a reschedule leaves a previous guest that is runnable
\* at the tail of the queue and one that is not runnable on no queue.
CurrentOnQueue ==
    /\ \A c \in CPUs :
          /\ RunningOn(c) = {sd[c].curr}
          /\ sd[c].curr \in Range(runqueue[c])
    /\ Scheduled /\ last.prev \in Guests =>
          LET q == runqueue[last.cpu]
          IN  IF dom[last.prev].runnable
              THEN q[Len(q)] = last.prev
              ELSE last.prev \notin Queued

\* a guest was current, was folded back to the tail, and another guest is
\* current now, on the queue like the first
GuestCurrentQueued ==
    /\ Scheduled /\ last.prev \in Guests /\ last.next \in Guests
    /\ last.prev # last.next
    /\ sd[last.cpu].curr = last.next
    /\ {last.prev, last.next} \subseteq Range(runqueue[last.cpu])

\* C12: the idle record of every CPU is on that CPU's run queue in every
\* state, so no queue is empty, and the domain a reschedule returns is on
\* the run queue of its CPU.
IdleSentinelQueued ==
    /\ \A c \in CPUs : IdleTask(c) \in Range(runqueue[c])
    /\ Scheduled => last.next \in Range(runqueue[last.cpu])

\* the previous guest blocked, the queue holds the idle record alone and
\* the reschedule returned it
OnlyIdleLeft ==
    /\ Scheduled /\ last.prev \in Guests
    /\ runqueue[last.cpu] = <<IdleTask(last.cpu)>>
    /\ last.next = IdleTask(last.cpu)

\* C13: a wake of a domain that is on no run queue links it at the head of
\* its CPU's run queue, sets its avt to the CPU's system virtual time if it
\* has migrated or its avt is below that time and leaves its avt alone
\* otherwise, sets its evt to the effective virtual time of the resulting
\* avt, and changes neither its warp flag nor its warpback flag
WakeInserts ==
    [][\A d \in Guests :
          Wake(d) /\ d \notin Queued =>
             LET c == dom[d].processor
             IN  /\ runqueue'[c] = <<d>> \o runqueue[c]
                 /\ inf'[d].avt = IF dom[d].migrated \/ Lt(inf[d].avt, svt[c])
                                  THEN svt[c] ELSE inf[d].avt
                 /\ inf'[d].evt = Effective(inf'[d])
                 /\ inf'[d].warp = inf[d].warp
                 /\ inf'[d].warpback = inf[d].warpback]_vars

\* a wake has just linked a warping guest ahead of the other records
WokenAtHead ==
    /\ last.op = "wake" /\ last.inserted
    /\ LET q == runqueue[dom[last.d].processor]
       IN  Len(q) > 1 /\ Head(q) = last.d
    /\ inf[last.d].warp = 1
    /\ inf[last.d].evt # inf[last.d].avt

\* the effective virtual time the current domain of cpu c has now: its avt
\* advanced by the mcus of the time it has run, less its warp if it warps
CurrEvtNow(c) ==
    LET curr == sd[c].curr
        ran == Sub(now, sd[c].lastschd)
        mcus == Div(Add(ran, Num(MCU - 1)), MCU)
    IN  Effective([inf[curr] EXCEPT !.avt = U32(Add(@, mcus))])

\* C14: a wake that links the domain raises the reschedule signal of its CPU
\* if and only if the current domain is the idle domain or the woken domain's
\* evt is at most the current domain's effective virtual time as of now;
\* otherwise the signal is left as it was
WakeSignals ==
    [][\A d \in Guests :
          Wake(d) /\ d \notin Queued =>
             LET c == dom[d].processor
                 due == \/ is_idle_task(sd[c].curr)
                        \/ Le(inf'[d].evt, CurrEvtNow(c))
             IN  /\ due => sd'[c].softirq
                 /\ ~due => sd'[c].softirq = sd[c].softirq]_vars

\* a wake has just raised the signal against a running guest
WokenPreempts ==
    /\ last.op = "wake" /\ last.inserted /\ ~last.pending
    /\ LET c == dom[last.d].processor
       IN  sd[c].softirq /\ ~is_idle_task(sd[c].curr)

\* C15: a wake moves the reschedule deadline of no CPU later; when it links
\* the domain and does not raise the signal, the deadline of the domain's CPU
\* becomes the lesser of the old deadline and
\*   curr.lastschd + (woken.evt - curr_evt) / curr.mcu_advance + ctx_allow
WakeTightensDeadline ==
    [][\A d \in Guests :
          Wake(d) =>
             /\ \A c \in CPUs :
                   Le(sd'[c].s_timer.expires, sd[c].s_timer.expires)
             /\ d \notin Queued =>
                   LET c == dom[d].processor
                       curr == sd[c].curr
                       curr_evt == CurrEvtNow(c)
                       old == sd[c].s_timer.expires
                       r_time ==
                           Add(Add(sd[c].lastschd,
                                   Div(Sub(inf'[d].evt, curr_evt),
                                       inf[curr].mcu_advance)),
                               ctx_allow)
                   IN  ~is_idle_task(curr) /\ Lt(curr_evt, inf'[d].evt) =>
                          sd'[c].s_timer.expires =
                              IF Lt(r_time, old) THEN r_time ELSE old]_vars

\* a wake has just brought the deadline forward without raising the signal
WokenTightened ==
    /\ last.op = "wake" /\ last.inserted /\ ~last.pending
    /\ LET c == dom[last.d].processor
       IN  /\ ~sd[c].softirq
           /\ sd[c].s_timer.active
           /\ Lt(sd[c].s_timer.expires, last.deadline)

\* the time the current domain of cpu c has run, in mcus, rounded up
ElapsedMcus(c) == Div(Add(Sub(now, sd[c].lastschd), Num(MCU - 1)), MCU)

\* this step, a reschedule on cpu c, folds the previous domain back: in the
\* table the scan reads its avt is ElapsedMcus(c) higher, its evt is the
\* effective virtual time of that avt, its warp timer is not pending; and if
\* it is runnable it is the last record of the run queue
Folded(c) ==
    LET prev == sd[c].curr
        rec == last'.scanned[prev]
        q == runqueue'[c]
    IN  /\ rec.avt = U32(Add(inf[prev].avt, ElapsedMcus(c)))
        /\ rec.evt = Effective(rec)
        /\ ~rec.warp_timer.active
        /\ dom[prev].runnable =>
              /\ q[Len(q)] = prev
              /\ Cardinality({i \in 1..Len(q) : q[i] = prev}) = 1

\* this step, a reschedule on cpu c, leaves the previous domain's record and
\* the run queue as they were
NotFolded(c) ==
    /\ last'.scanned[sd[c].curr] = inf[sd[c].curr]
    /\ runqueue' = runqueue

\* C16 as stated: every reschedule advances the previous domain's avt by
\* the elapsed time in mcus rounded up, recomputes its evt, cancels its
\* pending warp timer and puts it at the tail of the run queue if runnable
FoldsBackPrev ==
    [][\A c \in CPUs : Reschedule(c) => Folded(c)]_vars

\* C16: every reschedule whose previous domain is a guest advances that
\* domain's avt by the elapsed time in mcus rounded up, recomputes its evt
\* from the new avt and its warp state, cancels its pending warp timer and
\* puts it at the tail of the run queue if it is runnable; a reschedule whose
\* previous domain is the idle domain leaves its record and its place alone
FoldsBackGuest ==
    [][\A c \in CPUs :
          Reschedule(c) =>
             IF is_idle_task(sd[c].curr) THEN NotFolded(c) ELSE Folded(c)]_vars

\* a reschedule has just put a warping guest that ran behind the others
RequeuedAtTail ==
    /\ Scheduled /\ last.prev \in Guests /\ last.next # last.prev
    /\ dom[last.prev].runnable
    /\ LET q == runqueue[last.cpu]
       IN  Len(q) > 2 /\ q[Len(q)] = last.prev
    /\ last.scanned[last.prev].warp = 1
    /\ Lt(Zero, last.scanned[last.prev].avt)

\* this step leaves the avt and the evt of d as they are
KeepsTimes(d) == inf'[d].avt = inf[d].avt /\ inf'[d].evt = inf[d].evt

\* this step leaves the warp parameters of d as they are, the flag apart
KeepsWarpSetting(d) ==
    /\ inf'[d].warpback = inf[d].warpback
    /\ inf'[d].warp_value = inf[d].warp_value
    /\ inf'[d].warpl = inf[d].warpl
    /\ inf'[d].warpu = inf[d].warpu

\* this step leaves the warp flag and the warp parameters of d as they are
KeepsWarp(d) == inf'[d].warp = inf[d].warp /\ KeepsWarpSetting(d)

\* d is blocked: not runnable, not running, on no run queue
Blocked(d) == ~dom[d].runnable /\ ~dom[d].running /\ d \notin Queued

\* this step, if it is a reschedule whose previous domain is a guest that is
\* not runnable, takes that guest off the run queues
Parks ==
    \A c \in CPUs :
       Reschedule(c) /\ sd[c].curr \in Guests /\ ~dom[sd[c].curr].runnable =>
          /\ sd[c].curr \notin UNION {Range(runqueue'[k]) : k \in CPUs}
          /\ ~dom'[sd[c].curr].runnable /\ ~dom'[sd[c].curr].running

\* C17 as stated, for the step that follows the reschedule: a previous
\* domain that the reschedule found not runnable is on no run queue after it
\* and, unless the next step is its wake, is on none after that step either
\* and has the avt, the evt and the warp parameters it had at the end of the
\* reschedule
ParkedKeepsValues ==
    [][/\ Parks
       /\ \A d \in Guests :
             /\ Scheduled /\ last.prev = d /\ Blocked(d)
             /\ ~Wake(d)
             => /\ d \notin UNION {Range(runqueue'[k]) : k \in CPUs}
                /\ KeepsTimes(d) /\ KeepsWarp(d)]_vars

\* C17: a previous domain that is not runnable at a reschedule is on no run
\* queue after it, and a blocked domain stays on none until a wake.  Until
\* then its avt, its evt and its warp parameters change only as follows: an
\* overflow rebase on its CPU lowers its avt and its evt by 0xe0000000
\* (modulo 2^32); a parameter set writes its warp parameters and sets its
\* warp flag; the expiry of its unwarp timer sets its warp flag if warpback
\* is set
ParkedChangesOnlyBy ==
    [][/\ Parks
       /\ \A d \in Guests :
             Blocked(d) /\ ~Wake(d) =>
                /\ d \notin UNION {Range(runqueue'[k]) : k \in CPUs}
                /\ CASE /\ last'.op = "schedule"
                        /\ last'.rebase /\ last'.cpu = dom[d].processor ->
                          /\ inf'[d].avt = U32(Sub(inf[d].avt, RebaseBy))
                          /\ inf'[d].evt = U32(Sub(inf[d].evt, RebaseBy))
                          /\ KeepsWarp(d)
                     [] \E p \in AdjParams(env) : bvt_adjdom_put(d, p) ->
                          KeepsTimes(d)
                     [] unwarp_timer_fn(d) ->
                          /\ KeepsTimes(d) /\ KeepsWarpSetting(d)
                          /\ inf'[d].warp =
                                IF inf[d].warpback # 0 THEN 1 ELSE inf[d].warp
                     [] OTHER -> KeepsTimes(d) /\ KeepsWarp(d)]_vars

\* a reschedule has taken a guest that ran off the run queues, and its CPU
\* has rescheduled again since
ParkedAcrossReschedule ==
    \E d \in Guests :
       /\ Blocked(d) /\ Lt(Zero, inf[d].avt)
       /\ Scheduled /\ last.prev # d /\ last.cpu = dom[d].processor
       /\ env = "warp"

\* C18: when the warp timer of a domain expires its warp flag is cleared; if
\* its unwarp time is 0 its warpback flag is cleared and its unwarp timer is
\* left as it is, and otherwise warpback is left as it is and the unwarp
\* timer is armed for now + unwarp time; in both cases the reschedule signal
\* of the domain's CPU is raised, and no reschedule is done on the spot: the
\* current domains, the run queues, the virtual times stay as they are
WarpExpiry ==
    [][\A d \in Guests :
          warp_timer_fn(d) =>
             /\ inf'[d].warp = 0
             /\ IF inf[d].warpu = Zero
                THEN /\ inf'[d].warpback = 0
                     /\ inf'[d].unwarp_timer = inf[d].unwarp_timer
                ELSE /\ inf'[d].warpback = inf[d].warpback
                     /\ inf'[d].unwarp_timer =
                           [active |-> TRUE,
                            expires |-> Add(now, inf[d].warpu)]
             /\ sd'[dom[d].processor].softirq
             /\ \A c \in CPUs : /\ sd'[c].curr = sd[c].curr
                                /\ sd'[c].lastschd = sd[c].lastschd
                                /\ sd'[c].s_timer = sd[c].s_timer
             /\ runqueue' = runqueue /\ svt' = svt /\ dom' = dom
             /\ KeepsTimes(d)]_vars

\* the warp timer of a guest without unwarp time has just expired
WarpEnded ==
    /\ last.op = "warp_timer"
    /\ inf[last.d].warpu = Zero
    /\ inf[last.d].warp = 0 /\ inf[last.d].warpback = 0
    /\ ~inf[last.d].unwarp_timer.active
    /\ sd[dom[last.d].processor].softirq

\* C19: when the unwarp timer of a domain expires with warpback set, its
\* warp flag is set and the reschedule signal of its CPU is raised; with
\* warpback clear no field of a record changes (the timer itself is no
\* longer pending) and the signal is left as it is.  Either way nothing
\* else changes
UnwarpExpiry ==
    [][\A d \in Guests :
          unwarp_timer_fn(d) =>
             /\ IF inf[d].warpback # 0
                THEN /\ inf'[d].warp = 1
                     /\ sd'[dom[d].processor].softirq
                ELSE /\ inf'[d].warp = inf[d].warp
                     /\ sd' = sd
             /\ [inf' EXCEPT ![d].warp = inf[d].warp,
                             ![d].unwarp_timer = inf[d].unwarp_timer] = inf
             /\ \A c \in CPUs : /\ sd'[c].curr = sd[c].curr
                                /\ sd'[c].lastschd = sd[c].lastschd
                                /\ sd'[c].s_timer = sd[c].s_timer
             /\ runqueue' = runqueue /\ svt' = svt /\ dom' = dom]_vars

\* the unwarp timer of a guest has just expired with warpback clear, and no
\* reschedule is requested
UnwarpIgnored ==
    /\ last.op = "unwarp_timer"
    /\ inf[last.d].warpback = 0 /\ inf[last.d].warp = 0
    /\ ~sd[dom[last.d].processor].softirq

\* a reschedule has just armed the warp timer of the domain it chose while
\* that timer was pending
WarpTimerRearmed == Scheduled /\ last.rearm

\* a warp expiry has just armed the unwarp timer of its domain while that
\* timer was pending and not yet due
UnwarpTimerRearmed == last.op = "warp_timer" /\ last.rearm

\* the warp timer is never armed while pending
WarpTimerArmedOnce == ~WarpTimerRearmed

\* C20: through reschedules, timer expiries and parameter sets, neither the
\* warp timer nor the unwarp timer of a domain is armed while it is pending
TimersArmedOnce == ~WarpTimerRearmed /\ ~UnwarpTimerRearmed

\* C21: when a reschedule has folded a guest back, neither the warp timer
\* nor the unwarp timer of that guest is pending in the table the scan reads,
\* so that no timer armed before the fold-back fires after it
FoldCancelsTimers ==
    Scheduled /\ last.prev \in Guests =>
       /\ ~last.scanned[last.prev].warp_timer.active
       /\ ~last.scanned[last.prev].unwarp_timer.active

\* the fold-back leaves no warp timer pending
FoldCancelsWarpTimer ==
    Scheduled /\ last.prev \in Guests =>
       ~last.scanned[last.prev].warp_timer.active

\* C22: a reschedule arms the warp timer of the domain it selects, for now +
\* warp limit, if and only if that domain warps and its warp limit is
\* positive; it arms no other timer: no other warp timer becomes pending or
\* changes its expiry, and no unwarp timer changes
ArmsWarpTimerIff ==
    [][\A c \in CPUs :
          Reschedule(c) =>
             LET next == last'.next
                 due == inf'[next].warp = 1 /\ Lt(Zero, inf'[next].warpl)
             IN  /\ due => inf'[next].warp_timer =
                              [active |-> TRUE,
                               expires |-> Add(now, inf'[next].warpl)]
                 /\ ~due => ~inf'[next].warp_timer.active
                 /\ \A d \in Doms \ {next} :
                       \/ inf'[d].warp_timer = inf[d].warp_timer
                       \/ ~inf'[d].warp_timer.active
                 /\ \A d \in Doms :
                       inf'[d].unwarp_timer = inf[d].unwarp_timer]_vars

\* a reschedule has just selected a warping guest and armed its warp timer
WarpTimerArmed ==
    /\ Scheduled /\ last.next \in Guests
    /\ inf[last.next].warp = 1
    /\ inf[last.next].warp_timer.active
    /\ inf[last.next].warp_timer.expires = Add(now, inf[last.next].warpl)

\* C23: a set-domain-parameters request with mcu_advance 0 is rejected with
\* an error and changes no field of a domain record and nothing of the
\* per-CPU state (run queues, system virtual times, schedule data, the
\* allowance); and mcu_advance is non-zero in every reachable state
RejectsZeroAdvance ==
    /\ [](\A d \in Doms : inf[d].mcu_advance # 0)
    /\ [][\A d \in AdjDoms, p \in AdjParams(env) :
             bvt_adjdom_put(d, p) /\ p.mcu_adv = 0 =>
                /\ last'.op = "adjdom" /\ last'.ret = "EINVAL"
                /\ UNCHANGED <<inf, dom, runqueue, svt, sd, ctx_allow>>]_vars

\* a request with mcu_advance 0 has just been rejected for a guest with
\* parameters of its own
ZeroAdvanceRejected ==
    /\ last.op = "adjdom" /\ last.ret = "EINVAL"
    /\ inf[last.d].mcu_advance # MCU_ADVANCE

\* this step, an accepted parameter set of block p on d, writes the five
\* parameters and leaves avt, evt, both timers, every other record, the run
\* queues and the rest of the scheduler state alone
WritesParams(d, p) ==
    /\ inf'[d].mcu_advance = p.mcu_adv
    /\ inf'[d].warpback = p.warpback
    /\ inf'[d].warp_value = p.warpvalue
    /\ inf'[d].warpl = p.warpl
    /\ inf'[d].warpu = p.warpu
    /\ KeepsTimes(d)
    /\ inf'[d].warp_timer = inf[d].warp_timer
    /\ inf'[d].unwarp_timer = inf[d].unwarp_timer
    /\ \A e \in Doms \ {d} : inf'[e] = inf[e]
    /\ UNCHANGED <<dom, runqueue, svt, sd, ctx_allow>>

\* C24 as stated: an accepted set-domain-parameters request replaces exactly
\* mcu_advance, warpback, warp_value, warp limit and unwarp time, and leaves
\* the warp flag, avt, evt, the timers and the run queues unchanged
AdjdomKeepsWarpFlag ==
    [][\A d \in AdjDoms, p \in AdjParams(env) :
          bvt_adjdom_put(d, p) /\ p.mcu_adv # 0 =>
             WritesParams(d, p) /\ inf'[d].warp = inf[d].warp]_vars

\* C24: an accepted set-domain-parameters request replaces mcu_advance,
\* warpback, warp_value, warp limit and unwarp time, sets the warp flag, and
\* leaves avt, evt, the timers and the run queues unchanged, so that the new
\* values reach evt only when it is next recomputed
AdjdomSetsWarpFlag ==
    [][\A d \in AdjDoms, p \in AdjParams(env) :
          bvt_adjdom_put(d, p) /\ p.mcu_adv # 0 =>
             WritesParams(d, p) /\ inf'[d].warp = 1]_vars

\* a queued guest has been given a warp value and its evt is still its avt
\* (no timer is ever armed in this environment)
ParamsNotYetInEvt ==
    /\ env = "tune"
    /\ \E d \in AdjDoms :
          /\ d \in Queued /\ d \in stale
          /\ inf[d].warp = 1 /\ inf[d].warp_value = Num(1)
          /\ inf[d].mcu_advance = 1
          /\ inf[d].evt = inf[d].avt

(***************************************************************************)
(* calc_avt as a function of its inputs.  The record of guest A, the time  *)
(* its CPU last switched and the current time are drawn from the sets      *)
(* below; the call is applied to the drawn state and its result recorded.  *)
(***************************************************************************)
AvtInputs == {Zero, Num(1000), W(61439, 65535), MaxU32}

LastschdInputs == {Zero, Num(1000000000)}

\* elapsed run times in ns, below, at and above 2^32
ElapsedInputs ==
    {Zero, Num(1), Num(MCU - 1), Num(MCU), Num(MCU + 1), Num(5000000),
     W(32768, 0), W(65534, 31072), W(65534, 31073), W(65535, 65535),
     W(65536, 0), W(65536, 1), W(152587, 58368)}

McuAdvanceInputs == {1, MCU_ADVANCE}

InitAvt ==
    /\ env = "avt"
    /\ svt = [c \in CPUs |-> Zero]
    /\ \E a \in AvtInputs, m \in McuAdvanceInputs :
          inf = [d \in Doms |->
                   IF d = "A"
                   THEN [bvt_add_task(d, a) EXCEPT !.mcu_advance = m]
                   ELSE bvt_add_task(d, Zero)]
    /\ dom = [d \in Doms |->
                [processor |-> IF d = IdleTask(1) THEN 1 ELSE 0,
                 running |-> d = "A" \/ d = IdleTask(1),
                 runnable |-> d = "A" \/ is_idle_task(d),
                 migrated |-> FALSE]]
    /\ runqueue = [c \in CPUs |->
                     IF c = 0 THEN <<IdleTask(c), "A">> ELSE <<IdleTask(c)>>]
    /\ \E l \in LastschdInputs, el \in ElapsedInputs :
          /\ sd = [c \in CPUs |->
                     [curr |-> IF c = 0 THEN "A" ELSE IdleTask(c),
                      lastschd |-> IF c = 0 THEN l ELSE Zero,
                      s_timer |-> NoTimer, softirq |-> FALSE]]
          /\ now = Add(l, el)
    /\ ctx_allow = CtxAllowInit
    /\ pend = [c \in CPUs |-> NotIn]
    /\ wpend = [g \in Guests |-> NotIn]
    /\ stale = {}
    /\ last = NoOp

\* calc_avt(d, now): reads d->lastschd and inf->avt, writes nothing
CalcAvtCall(d) ==
    /\ last = NoOp
    /\ last' = [op |-> "calc_avt", d |-> d, avt |-> inf[d].avt,
                lastschd |-> lastschd(d), now |-> now,
                ret |-> calc_avt(inf, d, now)]
    /\ UNCHANGED <<env, inf, dom, runqueue, svt, sd, ctx_allow, now, pend,
                   wpend, stale>>

NextAvt == CalcAvtCall("A")

SpecAvt == InitAvt /\ [][NextAvt]_vars

\* ceil((now - lastschd) / MCU) without truncation
CeilMcus(t, l) == Div(Add(Sub(t, l), Num(MCU - 1)), MCU)

CalcAvtRoundsUpBelowWrap ==
    last.op = "calc_avt"
      /\ Le(Sub(last.now, last.lastschd), W(65534, 31072)) =>
       /\ last.ret = U32(Add(last.avt, CeilMcus(last.now, last.lastschd)))
       /\ Le(CeilMcus(last.now, last.lastschd), U32(Sub(last.ret, last.avt)))

CalcAvtCharged ==
    /\ last.op = "calc_avt"
    /\ last.now = Add(last.lastschd, Num(MCU + 1))
    /\ last.ret = Add(last.avt, Num(2))

\* guests A and B queued on CPU 0, not warping, mcu_advance 10, ctx_allow 5ms
EqualPair ==
    /\ ctx_allow = Num(5000000)
    /\ \A d \in {"A", "B"} :
          /\ d \in Range(runqueue[0])
          /\ dom[d].runnable /\ dom[d].processor = 0
          /\ inf[d].mcu_advance = MCU_ADVANCE
          /\ inf[d].warp = 0

\* the first reschedule of the pair: idle is current, both evt are 0
FirstOfPair ==
    /\ EqualPair
    /\ sd[0].curr = IdleTask(0)
    /\ \A d \in {"A", "B"} : inf[d].avt = Zero /\ inf[d].evt = Zero

\* the reschedule after A ran 5ms: A is current since 5ms, B waits at evt 0
SecondOfPair ==
    /\ EqualPair
    /\ sd[0].curr = "A"
    /\ inf["A"].avt = Zero
    /\ inf["B"].evt = Zero
    /\ now = Add(sd[0].lastschd, Num(5000000))

PairScenario(second_slice) ==
    /\ Reschedule(0) /\ FirstOfPair =>
          /\ last'.next \in {"A", "B"}
          /\ last'.next_prime \in {"A", "B"} \ {last'.next}
          /\ last'.r_time = Num(5000000)
    /\ Reschedule(0) /\ SecondOfPair =>
          /\ inf'["A"].avt = Num(50)
          /\ last'.next = "B"
          /\ last'.next_prime = "A"
          /\ last'.r_time = second_slice

\* C26 as stated: A and B with mcu_advance 10, ctx_allow 5ms, evt 0: the
\* first reschedule grants 5ms; after A ran 5ms its avt is 50 and the next
\* reschedule selects B with a slice of 10ms.
PairSecondSliceTenMs == [][PairScenario(Num(10000000))]_vars

\* C26: the same scenario, with the second slice (50 - 0)/10 ns + 5ms, that
\* is 5000005 ns.
PairSecondSliceFiveNs == [][PairScenario(Num(5000005))]_vars

PairSecondDone ==
    /\ Scheduled
    /\ last.prev = "A" /\ last.next = "B" /\ last.next_prime = "A"
    /\ last.ctx_allow = Num(5000000)
    /\ inf["A"].avt = Num(50) /\ inf["A"].evt = Num(50)
    /\ inf["B"].evt = Zero
    /\ now = Num(5000000)
    /\ sd[0].s_timer = [active |-> TRUE, expires |-> Num(10000005)]

PairFirstDone ==
    /\ Scheduled
    /\ last.prev = IdleTask(0) /\ last.next = "A" /\ last.next_prime = "B"
    /\ last.r_time = Num(5000000)
    /\ inf["A"].evt = Zero /\ inf["B"].evt = Zero

(***************************************************************************)
(* Two guests that stay runnable on CPU 0 and run each slice to its end:   *)
(* the reschedule timer set by the last bvt_do_schedule expires, and       *)
(* bvt_do_schedule runs at that time.  The real time each guest has run is *)
(* accumulated in last.ran.                                                *)
(***************************************************************************)
MaxCycles == 8

\* <<mcu_advance of A, mcu_advance of B>>
FairWeights == {<<1, 8>>, <<1, 10>>, <<1, 20>>, <<2, 20>>}

FairAllowances == {Num(5000000), Num(1000000), Num(MCU)}

FairStarts == {Zero, Num(1000)}

InitFair ==
    /\ env = "fair"
    /\ \E v \in FairStarts, w \in FairWeights :
          /\ svt = [c \in CPUs |-> IF c = 0 THEN v ELSE Zero]
          /\ inf = [d \in Doms |->
                      IF d = "A"
                      THEN [bvt_add_task(d, v) EXCEPT !.mcu_advance = w[1]]
                      ELSE IF d = "B"
                      THEN [bvt_add_task(d, v) EXCEPT !.mcu_advance = w[2]]
                      ELSE bvt_add_task(d, Zero)]
    /\ dom = [d \in Doms |->
                [processor |-> IF d = IdleTask(1) THEN 1 ELSE 0,
                 running |-> is_idle_task(d),
                 runnable |-> TRUE,
                 migrated |-> FALSE]]
    /\ runqueue = [c \in CPUs |->
                     IF c = 0 THEN <<"A", "B", IdleTask(c)>>
                     ELSE <<IdleTask(c)>>]
    /\ sd = [c \in CPUs |->
               [curr |-> IdleTask(c), lastschd |-> Zero, s_timer |-> NoTimer,
                softirq |-> c = 0]]
    /\ ctx_allow \in FairAllowances
    /\ now = Zero
    /\ pend = [c \in CPUs |-> NotIn]
    /\ wpend = [g \in Guests |-> NotIn]
    /\ stale = {}
    /\ last = [op |-> "start", cycles |-> 0, ran |-> [g \in Guests |-> Zero]]

\* the current domain of CPU c runs until the reschedule timer expires, then
\* bvt_do_schedule and the dispatch of its choice
FairCycle(c) ==
    \E ten \in TenTimes(ctx_allow) :
    LET t == IF sd[c].s_timer.active THEN sd[c].s_timer.expires ELSE now
        p == FoldScan(c, inf, runqueue, t)
        f == Finish(p, p.inf, svt, ctx_allow, ten)
    IN  /\ last.cycles < MaxCycles
        /\ p.on_rq
        /\ now' = t
        /\ inf' = f.inf
        /\ runqueue' = p.rq
        /\ svt' = f.svt
        /\ Dispatch(c, p.prev, f.task, f.time, t)
        /\ stale' = stale \ {p.prev}
        /\ last' = [cycles |-> last.cycles + 1,
                    ran |-> [g \in Guests |->
                               IF g = p.prev
                               THEN Add(last.ran[g], Sub(t, sd[c].lastschd))
                               ELSE last.ran[g]]] @@ f.last
        /\ UNCHANGED <<ctx_allow, env, pend, wpend>>

NextFair == FairCycle(0)

SpecFair == InitFair /\ [][NextFair]_vars

\* C27: for two permanently runnable, non-warping domains A and B with
\* mcu_advance a < b and equal starting evt, each running exactly its
\* slice, the running times approach the ratio (1/a) : (1/b).  With b at
\* least 8 times a, after MaxCycles reschedules A has run longer than B by
\* more than one slice.
HeavierRunsLonger ==
    last.cycles = MaxCycles =>
       Lt(Add(last.ran["B"], Add(ctx_allow, Num(MCU))), last.ran["A"])

\* what the code grants: the two running times differ by at most one slice,
\* whatever the weights
EqualShares ==
    last.cycles > 0 =>
       LET d == Sub(last.ran["A"], last.ran["B"])
           slice == Add(ctx_allow, Num(MCU))
       IN  Le(Sub(Zero, slice), d) /\ Le(d, slice)

\* guest d has warp_value 100, avt 1000 and evt 900
WarpScene(d) ==
    /\ inf[d].warp_value = Num(100)
    /\ inf[d].avt = Num(1000)
    /\ inf[d].evt = Num(900)

\* the fold-back of the current domain of c, its warp flag cleared since its
\* evt was computed, leaves avt, evt = (a, e)
UnwarpedFoldBack(c, a, e) ==
    LET d == sd[c].curr
    IN  Reschedule(c) /\ d \in Guests /\ WarpScene(d) /\ inf[d].warp = 0
           => inf'[d].avt = a /\ inf'[d].evt = e

WarpSceneSteps(c, a, e) ==
    /\ \A d \in Guests :
          /\ inf[d].warp = 1 /\ inf[d].warp_value = Num(100)
               => calc_evt(inf, d, Num(1000)) = Num(900)
          /\ warp_timer_fn(d) /\ WarpScene(d)
               => inf'[d].warp = 0 /\ KeepsTimes(d)
    /\ UnwarpedFoldBack(c, a, e)

WarpSceneExpired ==
    /\ env = "scene"
    /\ WarpScene("A") /\ inf["A"].warp = 0
    /\ sd[0].curr = "A" /\ sd[0].softirq

\* C29: removing a domain that is on no run queue is a no-op with no error:
\* a sleep of such a domain changes nothing, and a reschedule whose
\* previous domain is on no run queue folds it back and goes on to its
\* scan, leaving every queue as it is if the domain is blocked.
AbsentRemovalTolerated ==
    [][/\ \A d \in Guests :
             Sleep(d) /\ ~dom[d].running /\ ~__task_on_runqueue(d)
                => UNCHANGED <<runqueue, inf, svt, sd>>
       /\ \A c \in CPUs :
             SchedScan(c) /\ ~__task_on_runqueue(sd[c].curr)
                => /\ last'.op # "panic"
                   /\ pend'[c].on_rq
                   /\ dom[sd[c].curr].runnable \/ runqueue' = runqueue]_vars

\* a CPU has stopped in bvt_do_schedule on a current domain that a sleep
\* unlinked between the scan that chose it and its dispatch
StoppedOnAbsentPrev ==
    /\ last.op = "panic"
    /\ ~__task_on_runqueue(last.prev)
    /\ ~dom[last.prev].runnable
    /\ pend[last.cpu].busy

\* the least avt among the records on queue q in table I
RECURSIVE MinAvt(_, _)
MinAvt(q, I) ==
    IF Len(q) = 1 THEN I[Head(q)].avt
    ELSE LET m == MinAvt(Tail(q), I)
         IN  IF Lt(I[Head(q)].avt, m) THEN I[Head(q)].avt ELSE m

\* C30 as stated: after each reschedule, before any rebase, the CPU's svt
\* is the minimum avt over the domains on its run queue, idle included.
SvtIsQueueMin ==
    Scheduled => last.svt_set = MinAvt(runqueue[last.cpu], last.scanned)

\* C30: after each reschedule, before any rebase, the CPU's svt is the
\* minimum avt over the domains on its run queue, idle included, unless
\* that minimum is 0xffffffff: then svt is what it was.
SvtIsQueueMinOrKept ==
    Scheduled =>
       LET m == MinAvt(runqueue[last.cpu], last.scanned)
       IN  /\ last.min_avt = m
           /\ last.svt_set = IF m = MaxU32 THEN last.svt_in ELSE m

\* svt was raised to the least avt on the queue, that of a guest
SvtRaisedToQueueMin ==
    /\ Scheduled
    /\ Len(runqueue[last.cpu]) = 3
    /\ last.svt_set = MinAvt(runqueue[last.cpu], last.scanned)
    /\ Lt(last.svt_in, last.svt_set)
    /\ svt[last.cpu] = last.svt_set

\* only idle is queued and svt stays where the guests left it
SvtKeptWhenIdleAlone ==
    /\ Scheduled
    /\ runqueue[last.cpu] = <<IdleTask(last.cpu)>>
    /\ last.min_avt = MaxU32
    /\ Lt(Zero, last.svt_in)
    /\ svt[last.cpu] = last.svt_in

\* C31: the release of a domain's record never completes while the record
\* is on a run queue or one of its timers is armed.
FreedRecordUnlinked ==
    last.op = "free" =>
       /\ ~last.on_rq
       /\ ~last.warp_timer
       /\ ~last.unwarp_timer

\* the part that holds for a blocked guest: off the queue, warp timer removed
FreedRecordOffQueue ==
    last.op = "free" => ~last.on_rq /\ ~last.warp_timer

\* how many times d is linked on the run queues rq
Links(rq, d) ==
    Cardinality({<<c, i>> \in CPUs \X (1..4) :
                    i <= Len(rq[c]) /\ rq[c][i] = d})

\* C32: no wake, sleep or reschedule inserts a record that is already on a
\* run queue: a record is linked at most once, from initialisation on, and
\* a step that links a record finds it on no queue.
InsertsOnlyAbsent ==
    /\ [](\A d \in Doms : Links(runqueue, d) <= 1)
    /\ [][\A d \in Doms :
            Links(runqueue', d) > Links(runqueue, d)
               => ~__task_on_runqueue(d)]_vars

\* both guests queued, the previous one unlinked and linked again at the tail
RelinkedOnce ==
    /\ Scheduled /\ last.prev \in Guests
    /\ Guests \subseteq Range(runqueue[last.cpu])
    /\ Links(runqueue, last.prev) = 1
    /\ runqueue[last.cpu][Len(runqueue[last.cpu])] = last.prev
    /\ Len(runqueue[last.cpu]) = 3

\* C33: warp_timer_fn and unwarp_timer_fn write warp and warpback with
\* run_lock of the domain's CPU held: neither runs while a parameter set
\* on that CPU holds the lock.
TimerTogglesUnderLock ==
    [][\A d \in Guests :
          warp_timer_fn(d) \/ unwarp_timer_fn(d)
             => ~RunLockHeld(dom[d].processor)]_vars

\* the record a parameter set leaves is the one it wrote: warp set, and
\* warpback as requested
ParamSetWhole ==
    [][AdjdomUnlock =>
          LET r == pend[ControlCPU]
          IN  /\ inf'[r.d].warp = 1
              /\ inf'[r.d].warpback = r.p.warpback]_vars

\* C34: svt of a CPU and the avt and evt of its domains are written only
\* while the CPU's run_lock is held: the part of bvt_do_schedule that
\* follows the release of run_lock writes none of them.
WritesUnderRunLock ==
    [][\A c \in CPUs :
          SchedFinish(c) =>
             /\ svt' = svt
             /\ \A d \in Doms : /\ inf'[d].avt = inf[d].avt
                                /\ inf'[d].evt = inf[d].evt]_vars

\* C35: a reschedule that rebases leaves every queued guest of its CPU,
\* those woken while it ran included, inside the rebased range: below
\* 0xf0000000.
RebaseAtomicForWakes ==
    Scheduled /\ last.rebase =>
        \A d \in Guests :
            dom[d].processor = last.cpu /\ __task_on_runqueue(d) =>
                Lt(inf[d].avt, HighWater)

\* ... and not below the rebased svt
RebaseKeepsSvtFloor ==
    Scheduled /\ last.rebase =>
        \A d \in Guests :
            dom[d].processor = last.cpu /\ __task_on_runqueue(d) =>
                Le(svt[last.cpu], inf[d].avt)

\* no wake of a domain of CPU c takes place between the rebase loop of c
\* and the write of svt that follows it
RebaseNotObserved ==
    [][\A d \in Guests :
          WakeQueue(d) /\ ~__task_on_runqueue(d)
             => ~Rebasing(dom[d].processor)]_vars

\* C36: every reschedule finds the domain that was running on its CPU on
\* the CPU's run queue, whatever wakes and sleeps arrived from other CPUs
\* while the domain was being switched to.
PrevOnQueueAtEntry ==
    \A c \in CPUs : pend[c].busy => pend[c].on_rq

\* C37: a wake of a domain that is on its run queue already changes
\* nothing: the queues, every avt and evt, svt, the reschedule deadline
\* and the reschedule signal are as before.
WakeOfQueuedIsNoOp ==
    [][\A d \in Guests :
          Wake(d) /\ __task_on_runqueue(d)
             => UNCHANGED <<runqueue, inf, svt, sd>>]_vars

\* a queued guest whose evt is out of date was woken and is as it was
QueuedWokenAgain ==
    /\ last.op = "wake" /\ ~last.inserted
    /\ __task_on_runqueue(last.d)
    /\ inf[last.d].evt # calc_evt(inf, last.d, inf[last.d].avt)
    /\ last.pending = sd[dom[last.d].processor].softirq

\* queue q without the record of d, the others in their order
Without(q, d) == SelectSeq(q, LAMBDA x : x # d)

\* C38: a sleep of a running domain raises the reschedule signal of its
\* CPU and leaves the run queues as they are; a sleep of a domain that is
\* not running takes it off its run queue if it is there, the others
\* keeping their order, and raises nothing; neither changes an avt, an
\* evt, svt or a timer.
SleepFrame ==
    [][\A d \in Guests :
          Sleep(d) =>
             /\ UNCHANGED <<inf, svt>>
             /\ IF dom[d].running
                THEN /\ runqueue' = runqueue
                     /\ sd' = [sd EXCEPT ![dom[d].processor].softirq = TRUE]
                ELSE /\ runqueue' = [c \in CPUs |-> Without(runqueue[c], d)]
                     /\ sd' = sd]_vars

\* a running guest was put to sleep and is still queued, the signal raised
SleptWhileRunning ==
    /\ last.op = "sleep" /\ last.running
    /\ __task_on_runqueue(last.d)
    /\ sd[dom[last.d].processor].softirq

\* a queued guest that was not running was put to sleep and is unlinked
SleptWhileQueued ==
    /\ last.op = "sleep" /\ ~last.running /\ last.queued
    /\ ~__task_on_runqueue(last.d)

\* C39: what a get of guest d's parameters would return is, right after a
\* successful set, the block that was set, and it stays so under every
\* handler but a later set and the two timer callbacks of d; a get of the
\* allowance after a set returns the word that was set; a get returns
\* these values and changes nothing in the scheduler.
ControlRoundTrip ==
    [][/\ \A d \in AdjDoms, p \in AdjParams(env) :
             bvt_adjdom_put(d, p) /\ p.mcu_adv # 0 => AdjdomGet(inf', d) = p
       /\ \A d \in Guests :
             AdjdomGet(inf', d) # AdjdomGet(inf, d) =>
                \/ \E p \in AdjParams(env) : bvt_adjdom_put(d, p)
                \/ warp_timer_fn(d) \/ unwarp_timer_fn(d)
       /\ \A x \in CtxWords : bvt_ctl_put(S32(x)) => U32(ctx_allow') = x
       /\ ctx_allow' # ctx_allow => \E x \in CtxWords : bvt_ctl_put(S32(x))
       /\ \A d \in AdjDoms :
             bvt_adjdom_get(d) =>
                /\ last'.params = AdjdomGet(inf, d)
                /\ UNCHANGED <<inf, dom, runqueue, svt, sd, ctx_allow, now>>
       /\ bvt_ctl_get =>
             /\ last'.ctx_allow = U32(ctx_allow)
             /\ UNCHANGED <<inf, dom, runqueue, svt, sd, ctx_allow, now>>]_vars

\* guest A was woken and run after its parameters were set, and a get
\* returns the block that was set
ReadBackAfterRun ==
    /\ last.op = "adjdom_get" /\ last.params = ParamWarp
    /\ inf[last.d].avt # Zero

\* the allowance was set to 0x80000000 and a get returns that word
AllowanceReadBack ==
    /\ last.op = "ctl_get" /\ last.ctx_allow = W(32768, 0)
    /\ ctx_allow = S32Min

\* C40: on a CPU that keeps rescheduling, a guest that is on the run queue
\* is selected in the end (or leaves the queue, or the guests have been
\* followed up to MaxAvt).
NoStarvation ==
    \A g \in Guests :
        __task_on_runqueue(g) ~>
            \/ sd[dom[g].processor].curr = g
            \/ ~__task_on_runqueue(g)
            \/ AvtCapped

====
